---- MODULE Spec2Model ----
(***************************************************************************)
(* Model of src/c/library_improved_commented.c: the library tool's books   *)
(* and borrow-record stores, their CSV serialisation and parsing, and the  *)
(* write-temp-then-rename save; and of the in-memory stores of             *)
(* src/finance_manager_stats.c (RecordList), src/notebook.c (Document) and *)
(* src/c/portable_notebook.c (TextBuffer) with the commands that change    *)
(* them.  Text is a sequence of one-character strings; a file on disk is a *)
(* record [exists, data].  A run is a run of one program: the memory of    *)
(* the other three keeps its idle value.                                   *)
(***************************************************************************)
EXTENDS Integers, Sequences, FiniteSets, TLC

(* ------------------------------ bounds --------------------------------- *)

\* most lines in a books.csv the program starts from
MaxBookLines == 2
\* most lines in a borrowers.csv the program starts from
MaxRecLines == 1
\* most menu handlers (add, delete, borrow, return) main runs before it exits
MaxOps == 2
\* most failures of fopen, fwrite, fclose and rename in one run
MaxFaults == 1
\* most add_record calls in one run of the finance tool: enough to fill the
\* first allocation of 128 records and go past it
MaxAdds == 130
\* menu commands in a run of the library tool that starts with no data file
MaxLoanOps == 4
\* records in the list of finance_manager_stats when its data file is written
\* or read
MaxFileRecords == 2
\* save commands in a run of notebook.c
MaxSaves == 1

(* ------------------------- program constants --------------------------- *)

BOOKS_CSV == <<"books.csv">>
BORROW_CSV == <<"borrowers.csv">>
TMP_SUFFIX == ".tmp"
MAX_LINE == 1024
MAX_FIELD == 256
DATE_FIELD == 16
INITIAL_CAPACITY == 32

(* ------------------------------ text ----------------------------------- *)

LF == "\n"
CR == "\r"
COMMA == ","
Digits == <<"0", "1", "2", "3", "4", "5", "6", "7", "8", "9">>
DigitSet == {Digits[i] : i \in 1..10}
Space == {" ", "\t", LF, CR}

Min(a, b) == IF a < b THEN a ELSE b

DigitVal(c) == CHOOSE d \in 0..9 : Digits[d + 1] = c

RECURSIVE NatToStr(_)
NatToStr(n) ==
    IF n < 10 THEN <<Digits[n + 1]>>
    ELSE NatToStr(n \div 10) \o <<Digits[(n % 10) + 1]>>

\* printf's %d
IntToStr(n) == IF n < 0 THEN <<"-">> \o NatToStr(-n) ELSE NatToStr(n)

RECURSIVE AtoiDigits(_, _, _)
AtoiDigits(s, i, acc) ==
    IF i > Len(s) \/ s[i] \notin DigitSet THEN acc
    ELSE AtoiDigits(s, i + 1, acc * 10 + DigitVal(s[i]))

RECURSIVE SkipSpace(_, _)
SkipSpace(s, i) ==
    IF i <= Len(s) /\ s[i] \in Space THEN SkipSpace(s, i + 1) ELSE i

\* atoi: leading white space, an optional sign, then digits up to the first
\* character that is no digit; 0 when there is no digit
atoi(s) ==
    LET i == SkipSpace(s, 1)
        neg == i <= Len(s) /\ s[i] = "-"
        j == IF i <= Len(s) /\ s[i] \in {"-", "+"} THEN i + 1 ELSE i
        v == AtoiDigits(s, j, 0)
    IN IF neg THEN -v ELSE v

RECURSIVE chomp(_)
chomp(s) ==
    IF Len(s) > 0 /\ s[Len(s)] \in {LF, CR} THEN chomp(SubSeq(s, 1, Len(s) - 1))
    ELSE s

safe_strncpy(src, dstsize) == SubSeq(src, 1, Min(Len(src), dstsize - 1))

\* index of the first c in s at or after p, Len(s) + 1 when there is none
RECURSIVE IndexFrom(_, _, _)
IndexFrom(s, p, c) ==
    IF p > Len(s) \/ s[p] = c THEN p ELSE IndexFrom(s, p + 1, c)

RECURSIVE SplitFrom(_, _, _, _)
SplitFrom(line, p, max_fields, acc) ==
    IF p > Len(line) \/ Len(acc) >= max_fields THEN acc
    ELSE LET e == IndexFrom(line, p, COMMA)
             len == Min(e - p, MAX_FIELD - 1)
             field == SubSeq(line, p, p + len - 1)
             q == IF e <= Len(line) THEN e + 1 ELSE e
         IN SplitFrom(line, q, max_fields, Append(acc, field))

split_csv_fields(line, max_fields) == SplitFrom(line, 1, max_fields, <<>>)

\* the successive results of fgets(line, MAX_LINE, f) on a file holding text
RECURSIVE fgets_all(_)
fgets_all(text) ==
    IF Len(text) = 0 THEN <<>>
    ELSE LET e == IndexFrom(text, 1, LF)
             n == Min(Min(e, Len(text)), MAX_LINE - 1)
         IN <<SubSeq(text, 1, n)>> \o fgets_all(SubSeq(text, n + 1, Len(text)))

(* --------------------------- the two stores ---------------------------- *)

Book(id, title, author, total, available) ==
    [id |-> id, title |-> title, author |-> author,
     total |-> total, available |-> available]

BorrowRecord(borrower_id, book_id, borrow_date, return_date) ==
    [borrower_id |-> borrower_id, book_id |-> book_id,
     borrow_date |-> borrow_date, return_date |-> return_date]

ensure_capacity_Late(count, cap) ==
    IF cap = 0 THEN INITIAL_CAPACITY
    ELSE IF count > cap THEN cap * 2
    ELSE cap

\* the capacity after ensure_*_capacity() on a store of count items
ensure_capacity(count, cap) ==
    IF cap = 0 THEN INITIAL_CAPACITY
    ELSE IF count >= cap THEN cap * 2
    ELSE cap

(* ------------------------------ parsing -------------------------------- *)

\* one pass of load_books' loop on one fgets result: the book it admits, as a
\* sequence of length 1, or <<>> when the line is skipped
load_books_line(raw) ==
    LET line == chomp(raw)
        fields == split_csv_fields(line, 8)
    IN IF line = <<>> THEN <<>>
       ELSE IF Len(fields) < 5 THEN <<>>
       ELSE LET b == Book(atoi(fields[1]),
                          safe_strncpy(fields[2], MAX_FIELD),
                          safe_strncpy(fields[3], MAX_FIELD),
                          atoi(fields[4]), atoi(fields[5]))
            IN IF b.id > 0 /\ b.total >= 0 /\ b.available >= 0
                  /\ b.available <= b.total
               THEN <<b>> ELSE <<>>

load_records_line(raw) ==
    LET line == chomp(raw)
        fields == split_csv_fields(line, 8)
    IN IF line = <<>> THEN <<>>
       ELSE IF Len(fields) < 4 THEN <<>>
       ELSE LET r == BorrowRecord(atoi(fields[1]), atoi(fields[2]),
                                  safe_strncpy(fields[3], DATE_FIELD),
                                  safe_strncpy(fields[4], DATE_FIELD))
            IN IF r.borrower_id > 0 /\ r.book_id > 0 /\ r.borrow_date # <<>>
               THEN <<r>> ELSE <<>>

\* the store [items, cap] after load_books' loop has gone through lines
RECURSIVE load_books_loop(_, _)
load_books_loop(lines, st) ==
    IF lines = <<>> THEN st
    ELSE LET got == load_books_line(Head(lines))
             nxt == IF got = <<>> THEN st
                    ELSE [items |-> st.items \o got,
                          cap |-> ensure_capacity(Len(st.items), st.cap)]
         IN load_books_loop(Tail(lines), nxt)

RECURSIVE load_records_loop(_, _)
load_records_loop(lines, st) ==
    IF lines = <<>> THEN st
    ELSE LET got == load_records_line(Head(lines))
             nxt == IF got = <<>> THEN st
                    ELSE [items |-> st.items \o got,
                          cap |-> ensure_capacity(Len(st.items), st.cap)]
         IN load_records_loop(Tail(lines), nxt)

\* load_books / load_records on a file: a missing file leaves the store alone
load_books(file, st) ==
    IF ~file.exists THEN st
    ELSE load_books_loop(fgets_all(file.data), st)

load_records(file, st) ==
    IF ~file.exists THEN st
    ELSE load_records_loop(fgets_all(file.data), st)

(* ---------------------------- serialising ------------------------------ *)

\* "%d,%s,%s,%d,%d\n"
format_book(b) ==
    IntToStr(b.id) \o <<COMMA>> \o b.title \o <<COMMA>> \o b.author
    \o <<COMMA>> \o IntToStr(b.total) \o <<COMMA>> \o IntToStr(b.available)
    \o <<LF>>

\* "%d,%d,%s,%s\n"
format_record(r) ==
    IntToStr(r.borrower_id) \o <<COMMA>> \o IntToStr(r.book_id) \o <<COMMA>>
    \o r.borrow_date \o <<COMMA>> \o r.return_date \o <<LF>>

RECURSIVE format_books(_)
format_books(bs) ==
    IF bs = <<>> THEN <<>> ELSE format_book(Head(bs)) \o format_books(Tail(bs))

RECURSIVE format_records(_)
format_records(rs) ==
    IF rs = <<>> THEN <<>> ELSE format_record(Head(rs)) \o format_records(Tail(rs))

\* what strlen() can find in a malloc'ed buffer nothing was written to: the
\* bytes up to the first NUL of whatever the allocator handed out (nothing,
\* junk, or text of an earlier, freed buffer)
Uninitialized ==
    { <<>>,
      <<"x">>,
      <<"1", COMMA, "a", COMMA, "b", COMMA, "1", COMMA, "1", LF>> }

\* the texts save_books can hand to atomic_save_text: buf is written only by
\* the snprintf of the loop, so with no book it is read uninitialised
save_books_buf(bs) ==
    IF Len(bs) = 0 THEN Uninitialized ELSE {format_books(bs)}

save_records_buf(rs) ==
    IF Len(rs) = 0 THEN Uninitialized ELSE {format_records(rs)}

(* ------------------------------- files --------------------------------- *)

NoFile == [exists |-> FALSE, data |-> <<>>]
File(data) == [exists |-> TRUE, data |-> data]

\* strncpy(tmpname, filename); strncat(tmpname, TMP_SUFFIX)
tmpname(filename) == filename \o <<TMP_SUFFIX>>

Paths == {BOOKS_CSV, BORROW_CSV, tmpname(BOOKS_CSV), tmpname(BORROW_CSV)}

\* lines a books.csv may hold when the program starts
BookLines ==
    { <<"1", COMMA, "a", COMMA, "b", COMMA, "1", COMMA, "1">>,
      <<"1", COMMA, "c", COMMA, "d", COMMA, "2", COMMA, "1">>,
      <<"2", COMMA, "a", COMMA, "b", COMMA, "1", COMMA>>,
      <<"2", COMMA, "a", COMMA, "b", COMMA, "1", COMMA, "2">>,
      <<"1", COMMA, "a", COMMA, "b">> }

\* lines a borrowers.csv may hold when the program starts
RecLines ==
    { <<"1", COMMA, "1", COMMA, "d", COMMA>>,
      <<"1", COMMA, "1", COMMA, "d", COMMA, "e">>,
      <<"1", COMMA, "1", COMMA, "d", COMMA, COMMA, "x">> }

\* every line followed by '\n'; the lines are joined half by half
RECURSIVE JoinLines(_)
JoinLines(ls) ==
    IF ls = <<>> THEN <<>>
    ELSE IF Len(ls) = 1 THEN ls[1] \o <<LF>>
    ELSE LET h == Len(ls) \div 2
         IN JoinLines(SubSeq(ls, 1, h)) \o JoinLines(SubSeq(ls, h + 1, Len(ls)))

FilesOf(Lines, n) ==
    {NoFile} \cup
    {File(JoinLines(ls)) : ls \in UNION {[1..k -> Lines] : k \in 0..n}}

(* --------------------------- the user's input -------------------------- *)

TitleInputs == { <<"a", COMMA, "b", LF>>, <<LF>> }
\* a title with no comma in it
PlainTitleInputs == { <<"t", LF>> }
AuthorInputs == { <<"b", LF>> }
TotalInputs == { <<"2", LF>>, <<"0", LF>> }
BookIdInputs == { <<"0", LF>>, <<"1", LF>>, <<"2", LF>>, <<"3", LF>> }
BorrowerIdInputs == { <<"0", LF>>, <<"1", LF>> }

\* what today() writes: "%04d-%02d-%02d"
Dates == { <<"2", "0", "2", "6", "-", "1", "1", "-", "0", "4">> }

(* ------------------------------- state --------------------------------- *)

VARIABLES
    disk,              \* path -> file
    books,             \* books[0 .. books_count-1]
    books_capacity,
    records,           \* records[0 .. records_count-1]
    records_capacity,
    pc,                \* where main is
    caller,            \* the menu handler that is running
    fname,             \* atomic_save_text: filename
    content,           \* atomic_save_text: content
    pre,               \* the file at filename when atomic_save_text was entered
    ret,               \* atomic_save_text: the value it returned
    stage,             \* atomic_save_text: the return statement it left by
    ops,               \* menu handlers run so far
    faults,            \* failed calls of fopen, fwrite, fclose and rename so far
    result,            \* the latest command: its name, argument, outcome, message
    assigned,          \* the ids add_book has handed out in this run, in order
    deleted,           \* the ids of the books delete_book has removed in this run
    list,              \* finance_manager_stats.c: main's RecordList
    doc,               \* notebook.c: main's Document
    tb,                \* portable_notebook.c: main's TextBuffer
    current_path,      \* portable_notebook.c: main's current_path
    budget,            \* the number of menu commands in the library tool's input
    saved,             \* notebook.c: the lines as last saved, loaded or made new
    saves,             \* notebook.c: save commands run so far
    before,            \* portable_notebook.c: the lines when the latest snapshot
                       \* was taken
    shared_counter,    \* win_threads_full_example.c: shared_counter
    cs,                \* win_threads_full_example.c: the thread that owns cs, 0
                       \* when none does
    worker             \* win_threads_full_example.c: the two worker threads

vars == <<disk, books, books_capacity, records, records_capacity,
          pc, caller, fname, content, pre, ret, stage, ops, faults,
          result, assigned, deleted, list, doc, tb, current_path,
          budget, saved, saves, before, shared_counter, cs, worker>>

mem == <<books, books_capacity, records, records_capacity>>
call == <<fname, content, pre, ret, stage>>
hist == <<assigned, deleted>>
\* what no step of the library tool changes: the memory of the other three
\* programs and the length of its own input
notes == <<doc, saved, saves>>
buffer == <<tb, current_path, before>>
threads == <<shared_counter, cs, worker>>
others == <<list, notes, buffer, budget, threads>>
\* what save_books, save_records and atomic_save_text never touch
outside == <<result, hist, others>>
\* everything of the library tool
library == <<mem, caller, call, hist, budget, threads>>

Result(op, arg, r, msg) == [op |-> op, arg |-> arg, ret |-> r, msg |-> msg]
NoResult == Result("none", 0, 1, "none")

\* a NULL file name
NoName == <<>>
\* a NULL last_snapshot
NoSnapshot == [taken |-> FALSE, text |-> <<>>]

\* the memory of a program that is not running
NoList == [items |-> <<>>, capacity |-> 0, next_id |-> 0]
NoDoc == [lines |-> <<>>, capacity |-> 0, filename |-> NoName, modified |-> 0]
NoBuffer == [lines |-> <<>>, capacity |-> 0, last_snapshot |-> NoSnapshot]

\* a thread that was not created
NoThread == [pc |-> "none", i |-> 0, reg |-> 0, done |-> 0]

NoLibrary ==
    /\ shared_counter = 0
    /\ cs = 0
    /\ worker = [t \in {1, 2} |-> NoThread]
    /\ books = <<>>
    /\ books_capacity = 0
    /\ records = <<>>
    /\ records_capacity = 0
    /\ caller = "main"
    /\ assigned = <<>>
    /\ deleted = {}
    /\ budget = 0

\* the program has loaded nothing yet and atomic_save_text is not running
NoCall ==
    /\ fname = BOOKS_CSV
    /\ content = <<>>
    /\ pre = NoFile
    /\ ret = 1
    /\ stage = "none"

\* the disk with these two data files and no temporary file
DiskOf(bf, rf) ==
    [p \in Paths |->
        IF p = BOOKS_CSV THEN bf
        ELSE IF p = BORROW_CSV THEN rf
        ELSE NoFile]

\* a books.csv of n books with the ids 1 .. n, as save_books writes it
LongBooksFile(n) ==
    File(format_books([i \in 1..n |-> Book(i, <<"a">>, <<"b">>, 1, 1)]))

\* a borrowers.csv of n returned loans, as save_records writes it
LongRecordsFile(n) ==
    File(format_records([i \in 1..n |->
                            BorrowRecord(1, i, <<"d">>, <<"e">>)]))

\* the files main may find: every short file
StartDisks ==
    {DiskOf(bf, rf) : bf \in FilesOf(BookLines, MaxBookLines),
                      rf \in FilesOf(RecLines, MaxRecLines)}

\* a books.csv with the ids 1 and 3, as save_books writes it
GapBooksFile ==
    File(format_books(<<Book(1, <<"a">>, <<"b">>, 1, 1),
                        Book(3, <<"a">>, <<"b">>, 2, 1)>>))

\* a borrowers.csv with one loan of book 1 that is still open
OpenLoanFile == File(<<"1", COMMA, "1", COMMA, "d", COMMA, COMMA, "x", LF>>)

\* a borrowers.csv with two open loans of book 3 to borrower 1
TwoLoansFile ==
    File(<<"1", COMMA, "3", COMMA, "d", COMMA, COMMA, "x", LF,
           "1", COMMA, "3", COMMA, "e", COMMA, COMMA, "x", LF>>)

\* files main may find as well: none, files long enough to fill the arrays up
\* to and past their first allocation, and an open loan with and without
\* its book
StoreDisks ==
    { DiskOf(NoFile, NoFile),
      DiskOf(LongBooksFile(INITIAL_CAPACITY - 1), NoFile),
      DiskOf(LongBooksFile(INITIAL_CAPACITY + 1),
             LongRecordsFile(INITIAL_CAPACITY)),
      DiskOf(GapBooksFile, OpenLoanFile),
      DiskOf(GapBooksFile, TwoLoansFile),
      DiskOf(NoFile, OpenLoanFile) }

\* main of library_improved_commented.c is entered with the two files in one
\* of the states of disks and this many menu commands on its input
LibraryStart(disks, commands) ==
    /\ disk \in disks
    /\ budget = commands
    /\ books = <<>>
    /\ books_capacity = 0
    /\ records = <<>>
    /\ records_capacity = 0
    /\ pc = "load_books"
    /\ caller = "main"
    /\ NoCall
    /\ ops = 0
    /\ faults = 0
    /\ result = NoResult
    /\ assigned = <<>>
    /\ deleted = {}
    /\ list = NoList
    /\ doc = NoDoc
    /\ saved = <<>>
    /\ saves = 0
    /\ tb = NoBuffer
    /\ current_path = NoName
    /\ before = <<>>
    /\ shared_counter = 0
    /\ cs = 0
    /\ worker = [t \in {1, 2} |-> NoThread]

Init == LibraryStart(StartDisks, MaxOps)


(* ------------------------------ startup -------------------------------- *)

LoadBooks ==
    /\ pc = "load_books"
    /\ LET st == load_books(disk[BOOKS_CSV],
                            [items |-> books, cap |-> books_capacity])
       IN /\ books' = st.items
          /\ books_capacity' = st.cap
    /\ pc' = "load_records"
    /\ UNCHANGED <<disk, records, records_capacity, caller, ops, faults, call>>
    /\ UNCHANGED outside

LoadRecords ==
    /\ pc = "load_records"
    /\ LET st == load_records(disk[BORROW_CSV],
                              [items |-> records, cap |-> records_capacity])
       IN /\ records' = st.items
          /\ records_capacity' = st.cap
    /\ pc' = "menu"
    /\ UNCHANGED <<disk, books, books_capacity, caller, ops, faults, call>>
    /\ UNCHANGED outside

(* ------------------------------ queries -------------------------------- *)

MaxId_Count(bs, max) == Len(bs)

RECURSIVE MaxId(_, _)
MaxId(bs, max) ==
    IF bs = <<>> THEN max
    ELSE MaxId(Tail(bs), IF Head(bs).id > max THEN Head(bs).id ELSE max)

next_book_id_NoIncrement(bs) == MaxId(bs, 0)

next_book_id(bs) == MaxId(bs, 0) + 1

\* index (from 1) of the first book with this id, 0 when there is none
find_book_index_by_id(bs, id) ==
    IF \E i \in 1..Len(bs) : bs[i].id = id
    THEN CHOOSE i \in 1..Len(bs) :
            /\ bs[i].id = id
            /\ \A j \in 1..(i - 1) : bs[j].id # id
    ELSE 0

has_open_record_Never(rs, id) == FALSE

\* delete_book's scan of the records: an unreturned record of this book
has_open_record(rs, id) ==
    \E i \in 1..Len(rs) : rs[i].book_id = id /\ rs[i].return_date = <<>>

find_open_record_First(rs, borrower_id, book_id) ==
    LET hits == {i \in 1..Len(rs) :
                    /\ rs[i].borrower_id = borrower_id
                    /\ rs[i].book_id = book_id
                    /\ rs[i].return_date = <<>>}
    IN IF hits = {} THEN 0 ELSE CHOOSE i \in hits : \A j \in hits : i <= j

\* return_book's scan from the end: the index (from 1) of the last unreturned
\* record of this borrower and book, 0 when there is none
find_open_record(rs, borrower_id, book_id) ==
    LET hits == {i \in 1..Len(rs) :
                    /\ rs[i].borrower_id = borrower_id
                    /\ rs[i].book_id = book_id
                    /\ rs[i].return_date = <<>>}
    IN IF hits = {} THEN 0 ELSE CHOOSE i \in hits : \A j \in hits : j <= i

RemoveAt(seq, i) == SubSeq(seq, 1, i - 1) \o SubSeq(seq, i + 1, Len(seq))

(* --------------------------- menu handlers ----------------------------- *)

\* menu 1: the three prompts, the new book at the end, then save_books()
AddBook(title_in, author_in, total_in) ==
    LET title == safe_strncpy(chomp(title_in), MAX_FIELD)
        author == safe_strncpy(chomp(author_in), MAX_FIELD)
        total == atoi(chomp(total_in))
        id == next_book_id(books)
    IN /\ pc = "menu"
       /\ ops < budget
       /\ title # <<>>
       /\ author # <<>>
       /\ total > 0
       /\ books_capacity' = ensure_capacity(Len(books), books_capacity)
       /\ books' = Append(books, Book(id, title, author, total, total))
       /\ pc' = "save_books"
       /\ caller' = "add_book"
       /\ ops' = ops + 1
       /\ result' = Result("add_book", id, 1, "added")
       /\ assigned' = Append(assigned, id)
       /\ UNCHANGED <<disk, records, records_capacity, call, faults, deleted,
                      others>>

delete_book_refusal_NoLoanCheck(bs, rs, id) ==
    IF id <= 0 THEN "invalid_id"
    ELSE IF find_book_index_by_id(bs, id) = 0 THEN "not_found"
    ELSE "none"

\* why delete_book returns before it removes anything, "none" when it does not
delete_book_refusal(bs, rs, id) ==
    IF id <= 0 THEN "invalid_id"
    ELSE IF has_open_record(rs, id) THEN "open_record"
    ELSE IF find_book_index_by_id(bs, id) = 0 THEN "not_found"
    ELSE "none"

\* menu 2: refused while the book has an unreturned record or is not found;
\* otherwise the books behind it move one place down and save_books() runs
DeleteBook(id_in) ==
    LET id == atoi(chomp(id_in))
        idx == find_book_index_by_id(books, id)
        refusal == delete_book_refusal(books, records, id)
    IN /\ pc = "menu"
       /\ ops < budget
       /\ UNCHANGED others
       /\ IF refusal # "none"
          THEN /\ result' = Result("delete_book", id, 0, refusal)
               /\ UNCHANGED <<disk, mem, pc, caller, ops, call, faults, hist>>
          ELSE /\ books' = RemoveAt(books, idx)
               /\ pc' = "save_books"
               /\ caller' = "delete_book"
               /\ ops' = ops + 1
               /\ result' = Result("delete_book", id, 1, "deleted")
               /\ deleted' = deleted \cup {id}
               /\ UNCHANGED <<disk, books_capacity, records, records_capacity,
                              call, faults, assigned>>

BorrowBook_KeepsAvailable(borrower_in, book_in, date) ==
    LET borrower_id == atoi(chomp(borrower_in))
        book_id == atoi(chomp(book_in))
        idx == find_book_index_by_id(books, book_id)
    IN /\ pc = "menu"
       /\ ops < budget
       /\ borrower_id > 0
       /\ book_id > 0
       /\ idx # 0
       /\ books[idx].available > 0
       /\ records_capacity' = ensure_capacity(Len(records), records_capacity)
       /\ records' = Append(records,
                            BorrowRecord(borrower_id, book_id, date, <<>>))
       /\ pc' = "save_books"
       /\ caller' = "borrow_book"
       /\ ops' = ops + 1
       /\ result' = Result("borrow_book", book_id, 1, "borrowed")
       /\ UNCHANGED <<disk, books, books_capacity, call, faults, hist, others>>

BorrowBook_NoAvailableCheck(borrower_in, book_in, date) ==
    LET borrower_id == atoi(chomp(borrower_in))
        book_id == atoi(chomp(book_in))
        idx == find_book_index_by_id(books, book_id)
    IN /\ pc = "menu"
       /\ ops < budget
       /\ borrower_id > 0
       /\ book_id > 0
       /\ idx # 0
       /\ records_capacity' = ensure_capacity(Len(records), records_capacity)
       /\ records' = Append(records,
                            BorrowRecord(borrower_id, book_id, date, <<>>))
       /\ books' = [books EXCEPT ![idx].available = @ - 1]
       /\ pc' = "save_books"
       /\ caller' = "borrow_book"
       /\ ops' = ops + 1
       /\ result' = Result("borrow_book", book_id, 1, "borrowed")
       /\ UNCHANGED <<disk, books_capacity, call, faults, hist, others>>

\* menu 5: a new unreturned record at the end, one copy fewer available, then
\* save_books() and save_records()
BorrowBook(borrower_in, book_in, date) ==
    LET borrower_id == atoi(chomp(borrower_in))
        book_id == atoi(chomp(book_in))
        idx == find_book_index_by_id(books, book_id)
    IN /\ pc = "menu"
       /\ ops < budget
       /\ borrower_id > 0
       /\ book_id > 0
       /\ idx # 0
       /\ books[idx].available > 0
       /\ records_capacity' = ensure_capacity(Len(records), records_capacity)
       /\ records' = Append(records,
                            BorrowRecord(borrower_id, book_id, date, <<>>))
       /\ books' = [books EXCEPT ![idx].available = @ - 1]
       /\ pc' = "save_books"
       /\ caller' = "borrow_book"
       /\ ops' = ops + 1
       /\ result' = Result("borrow_book", book_id, 1, "borrowed")
       /\ UNCHANGED <<disk, books_capacity, call, faults, hist, others>>

\* menu 6: the last unreturned record of this borrower and book gets today's
\* date; the book, if it is still there, gets a copy back but never more than
\* total; then save_books() and save_records()
ReturnBook(borrower_in, book_in, date) ==
    LET borrower_id == atoi(chomp(borrower_in))
        book_id == atoi(chomp(book_in))
        i == find_open_record(records, borrower_id, book_id)
        idx == find_book_index_by_id(books, book_id)
    IN /\ pc = "menu"
       /\ ops < budget
       /\ borrower_id > 0
       /\ book_id > 0
       /\ i # 0
       /\ records' = [records EXCEPT ![i].return_date =
                                        safe_strncpy(date, DATE_FIELD)]
       /\ books' = IF idx # 0 /\ books[idx].available < books[idx].total
                   THEN [books EXCEPT ![idx].available = @ + 1]
                   ELSE books
       /\ pc' = "save_books"
       /\ caller' = "return_book"
       /\ ops' = ops + 1
       /\ result' = Result("return_book", book_id, 1, "returned")
       /\ UNCHANGED <<disk, books_capacity, records_capacity, call, faults, hist,
                      others>>

\* why borrow_book returns before it changes anything, "none" when it does not
borrow_book_refusal(bs, borrower_id, book_id) ==
    IF borrower_id <= 0 THEN "invalid_borrower"
    ELSE IF book_id <= 0 THEN "invalid_id"
    ELSE IF find_book_index_by_id(bs, book_id) = 0 THEN "not_found"
    ELSE IF bs[find_book_index_by_id(bs, book_id)].available <= 0
         THEN "none_available"
    ELSE "none"

\* why return_book returns before it changes anything, "none" when it does not
return_book_refusal(rs, borrower_id, book_id) ==
    IF borrower_id <= 0 THEN "invalid_borrower"
    ELSE IF book_id <= 0 THEN "invalid_id"
    ELSE IF find_open_record(rs, borrower_id, book_id) = 0
         THEN "no_open_record"
    ELSE "none"

\* menu 5 and menu 6 on an input they refuse: a message and back to the menu
LoanRefused(op, borrower_in, book_in) ==
    LET borrower_id == atoi(chomp(borrower_in))
        book_id == atoi(chomp(book_in))
        refusal == IF op = "borrow_book"
                   THEN borrow_book_refusal(books, borrower_id, book_id)
                   ELSE return_book_refusal(records, borrower_id, book_id)
    IN /\ pc = "menu"
       /\ ops < budget
       /\ refusal # "none"
       /\ result' = Result(op, IF borrower_id <= 0 THEN 0 ELSE book_id,
                           0, refusal)
       /\ UNCHANGED <<disk, mem, pc, caller, ops, call, faults, hist, others>>

\* menu 8, or end of input: save_books(), save_records(), free_all()
Exit ==
    /\ pc = "menu"
    /\ pc' = "save_books"
    /\ caller' = "main"
    /\ result' = Result("exit", 0, 1, "exit")
    /\ UNCHANGED <<disk, mem, call, ops, faults, hist, others>>

(* -------------------------- save_books / records ----------------------- *)

\* save_books up to its call of atomic_save_text(BOOKS_CSV, buf)
SaveBooks ==
    /\ pc = "save_books"
    /\ content' \in save_books_buf(books)
    /\ fname' = BOOKS_CSV
    /\ pre' = disk[BOOKS_CSV]
    /\ stage' = "none"
    /\ pc' = "fopen"
    /\ UNCHANGED <<disk, mem, caller, ops, faults, ret>>
    /\ UNCHANGED outside

\* save_records up to its call of atomic_save_text(BORROW_CSV, buf)
SaveRecords ==
    /\ pc = "save_records"
    /\ content' \in save_records_buf(records)
    /\ fname' = BORROW_CSV
    /\ pre' = disk[BORROW_CSV]
    /\ stage' = "none"
    /\ pc' = "fopen"
    /\ UNCHANGED <<disk, mem, caller, ops, faults, ret>>
    /\ UNCHANGED outside

\* the frame of atomic_save_text is gone once its caller has its result
Returned ==
    /\ fname' = BOOKS_CSV
    /\ content' = <<>>
    /\ pre' = NoFile
    /\ ret' = 1
    /\ stage' = "none"

\* save_books after atomic_save_text has returned: back to the handler, which
\* goes on to save_records() or returns to the menu
SaveBooksReturn ==
    /\ pc = "ret"
    /\ fname = BOOKS_CSV
    /\ pc' = IF caller \in {"borrow_book", "return_book", "main"}
             THEN "save_records" ELSE "menu"
    /\ Returned
    /\ UNCHANGED <<disk, mem, caller, ops, faults>>
    /\ UNCHANGED outside

\* save_records after atomic_save_text has returned; main then frees both
\* arrays and leaves
SaveRecordsReturn ==
    /\ pc = "ret"
    /\ fname = BORROW_CSV
    /\ IF caller = "main"
       THEN /\ books' = <<>>
            /\ books_capacity' = 0
            /\ records' = <<>>
            /\ records_capacity' = 0
            /\ pc' = "done"
       ELSE /\ pc' = "menu"
            /\ UNCHANGED mem
    /\ Returned
    /\ UNCHANGED <<disk, caller, ops, faults>>
    /\ UNCHANGED outside

(* --------------------------- atomic_save_text -------------------------- *)

\* fopen(tmpname, "w") creates or truncates the temporary file
FopenOk ==
    /\ pc = "fopen"
    /\ disk' = [disk EXCEPT ![tmpname(fname)] = File(<<>>)]
    /\ pc' = IF Len(content) > 0 THEN "fwrite" ELSE "fclose"
    /\ UNCHANGED <<mem, caller, ops, faults, call>>
    /\ UNCHANGED outside

FopenFail ==
    /\ pc = "fopen"
    /\ ret' = 0
    /\ stage' = "open"
    /\ pc' = "ret"
    /\ faults < MaxFaults
    /\ faults' = faults + 1
    /\ UNCHANGED <<disk, mem, caller, ops, fname, content, pre>>
    /\ UNCHANGED outside

FwriteOk ==
    /\ pc = "fwrite"
    /\ disk' = [disk EXCEPT ![tmpname(fname)] = File(content)]
    /\ pc' = "fclose"
    /\ UNCHANGED <<mem, caller, ops, faults, call>>
    /\ UNCHANGED outside

\* a short write: fclose(f); remove(tmpname); return 0
FwriteFail ==
    /\ pc = "fwrite"
    /\ disk' = [disk EXCEPT ![tmpname(fname)] = NoFile]
    /\ ret' = 0
    /\ stage' = "write"
    /\ pc' = "ret"
    /\ faults < MaxFaults
    /\ faults' = faults + 1
    /\ UNCHANGED <<mem, caller, ops, fname, content, pre>>
    /\ UNCHANGED outside

FcloseOk ==
    /\ pc = "fclose"
    /\ pc' = "remove"
    /\ UNCHANGED <<disk, mem, caller, ops, faults, call>>
    /\ UNCHANGED outside

FcloseFail_KeepTmp ==
    /\ pc = "fclose"
    /\ ret' = 0
    /\ stage' = "close"
    /\ pc' = "ret"
    /\ faults < MaxFaults
    /\ faults' = faults + 1
    /\ UNCHANGED <<disk, mem, caller, ops, fname, content, pre>>
    /\ UNCHANGED outside

\* fclose fails: remove(tmpname); return 0
FcloseFail ==
    /\ pc = "fclose"
    /\ disk' = [disk EXCEPT ![tmpname(fname)] = NoFile]
    /\ ret' = 0
    /\ stage' = "close"
    /\ pc' = "ret"
    /\ faults < MaxFaults
    /\ faults' = faults + 1
    /\ UNCHANGED <<mem, caller, ops, fname, content, pre>>
    /\ UNCHANGED outside

\* remove(filename), its result ignored
RemoveTarget ==
    /\ pc = "remove"
    /\ disk' = [disk EXCEPT ![fname] = NoFile]
    /\ pc' = "rename"
    /\ UNCHANGED <<mem, caller, ops, faults, call>>
    /\ UNCHANGED outside

RenameOk ==
    /\ pc = "rename"
    /\ disk' = [disk EXCEPT ![fname] = disk[tmpname(fname)],
                            ![tmpname(fname)] = NoFile]
    /\ ret' = 1
    /\ stage' = "ok"
    /\ pc' = "ret"
    /\ UNCHANGED <<mem, caller, ops, faults, fname, content, pre>>
    /\ UNCHANGED outside

\* rename fails: remove(tmpname); return 0
RenameFail ==
    /\ pc = "rename"
    /\ disk' = [disk EXCEPT ![tmpname(fname)] = NoFile]
    /\ ret' = 0
    /\ stage' = "rename"
    /\ pc' = "ret"
    /\ faults < MaxFaults
    /\ faults' = faults + 1
    /\ UNCHANGED <<mem, caller, ops, fname, content, pre>>
    /\ UNCHANGED outside

(* ====================== finance_manager_stats.c ======================== *)

DATA_FILE == <<"finance_data.csv">>
FINANCE_INITIAL_CAPACITY == 128
DATE_LEN == 11
CATEGORY_LEN == 64
NOTE_LEN == 256

Record(id, date, category, amount, note) ==
    [id |-> id, date |-> date, category |-> category,
     amount |-> amount, note |-> note]

\* strncpy(dst, src, n - 1); dst[n - 1] = '\0'
strncpy_nul(src, n) == SubSeq(src, 1, Min(Len(src), n - 1))

init_list ==
    [items |-> <<>>, capacity |-> FINANCE_INITIAL_CAPACITY, next_id |-> 1]

list_ensure_capacity(l) ==
    IF Len(l.items) >= l.capacity THEN [l EXCEPT !.capacity = @ * 2] ELSE l

add_record(l, date, category, amount, note) ==
    LET e == list_ensure_capacity(l)
        r == Record(e.next_id, strncpy_nul(date, DATE_LEN),
                    strncpy_nul(category, CATEGORY_LEN), amount,
                    strncpy_nul(note, NOTE_LEN))
    IN [e EXCEPT !.items = Append(@, r), !.next_id = @ + 1]

\* index (from 1) of the first record with this id, 0 when there is none
find_index_by_id(l, id) ==
    IF \E i \in 1..Len(l.items) : l.items[i].id = id
    THEN CHOOSE i \in 1..Len(l.items) :
            /\ l.items[i].id = id
            /\ \A j \in 1..(i - 1) : l.items[j].id # id
    ELSE 0

\* the array after the loop items[i-1] = items[i] for i up to the last element
\* (i counts from 1 here): the last element stays where it was as well
shift_down(items, i) ==
    [j \in 1..Len(items) |->
        IF j >= i - 1 /\ j < Len(items) THEN items[j + 1] ELSE items[j]]

delete_record_NoShift(l, id) ==
    LET idx == find_index_by_id(l, id)
    IN IF idx = 0 THEN [ret |-> 0, after |-> l]
       ELSE [ret |-> 1,
             after |-> [l EXCEPT !.items = SubSeq(@, 1, Len(@) - 1)]]

delete_record(l, id) ==
    LET idx == find_index_by_id(l, id)
        moved == shift_down(l.items, idx + 1)
    IN IF idx = 0 THEN [ret |-> 0, after |-> l]
       ELSE [ret |-> 1,
             after |-> [l EXCEPT !.items = SubSeq(moved, 1, Len(moved) - 1)]]

update_record(l, id, date, category, amount, note) ==
    LET idx == find_index_by_id(l, id)
    IN IF idx = 0 THEN [ret |-> 0, after |-> l]
       ELSE [ret |-> 1,
             after |-> [l EXCEPT
                 !.items[idx] = Record(@.id, strncpy_nul(date, DATE_LEN),
                                       strncpy_nul(category, CATEGORY_LEN),
                                       amount, strncpy_nul(note, NOTE_LEN))]]

\* trim_newline: every trailing '\n' and '\r' goes
trim_newline(s) == chomp(s)

\* an amount in hundredths: atof on a decimal with at most two decimals
atof(s) ==
    LET i == SkipSpace(s, 1)
        neg == i <= Len(s) /\ s[i] = "-"
        j == IF i <= Len(s) /\ s[i] \in {"-", "+"} THEN i + 1 ELSE i
        k == CHOOSE e \in j..(Len(s) + 1) :
                /\ \A x \in j..(e - 1) : s[x] \in DigitSet
                /\ e > Len(s) \/ s[e] \notin DigitSet
        whole == AtoiDigits(s, j, 0)
        isdigit(x) == x <= Len(s) /\ s[x] \in DigitSet
        d(x) == IF isdigit(x) THEN DigitVal(s[x]) ELSE 0
        frac == IF k <= Len(s) /\ s[k] = "." /\ isdigit(k + 1)
                THEN 10 * d(k + 1) + d(k + 2)
                ELSE 0
        v == 100 * whole + frac
    IN IF neg THEN -v ELSE v

QUOTE == "\""

\* the first line save_to_file writes
CSV_HEADER ==
    <<"i", "d", COMMA, "d", "a", "t", "e", COMMA,
      "c", "a", "t", "e", "g", "o", "r", "y", COMMA,
      "a", "m", "o", "u", "n", "t", COMMA, "n", "o", "t", "e">>

\* "%.2f" of an amount in hundredths
format_amount(a) ==
    LET v == IF a < 0 THEN -a ELSE a
    IN (IF a < 0 THEN <<"-">> ELSE <<>>) \o NatToStr(v \div 100) \o <<".">>
       \o <<Digits[(v % 100) \div 10 + 1], Digits[(v % 10) + 1]>>

\* the note with every '"' turned into '\''
note_safe(note) ==
    [j \in 1..Len(note) |-> IF note[j] = QUOTE THEN "'" ELSE note[j]]

\* "%d,%s,%s,%.2f,\"%s\"" of a record
format_record_line(r) ==
    IntToStr(r.id) \o <<COMMA>> \o r.date \o <<COMMA>> \o r.category
    \o <<COMMA>> \o format_amount(r.amount)
    \o <<COMMA, QUOTE>> \o note_safe(r.note) \o <<QUOTE>>

\* old: what is at filename; open_ok: whether fopen(filename, "w") succeeds
save_to_file(l, old, open_ok) ==
    IF ~open_ok THEN [ret |-> 0, file |-> old]
    ELSE [ret |-> 1,
          file |-> File(JoinLines(<<CSV_HEADER>> \o
                     [i \in 1..Len(l.items) |-> format_record_line(l.items[i])]))]

\* strstr(s, sub) # NULL
Contains(s, sub) ==
    \E i \in 1..(Len(s) - Len(sub) + 1) : SubSeq(s, i, i + Len(sub) - 1) = sub

\* index of the first character of s at or after p that is no comma
RECURSIVE SkipCommas(_, _)
SkipCommas(s, p) ==
    IF p <= Len(s) /\ s[p] = COMMA THEN SkipCommas(s, p + 1) ELSE p

\* strtok(., ",") resumed at position p of s: the commas at p are passed over
\* and the token runs up to the next comma; found is FALSE for NULL
strtok_comma(s, p) ==
    LET a == SkipCommas(s, p)
        e == IndexFrom(s, a, COMMA)
    IN [found |-> a <= Len(s), tok |-> SubSeq(s, a, e - 1),
        next |-> IF e <= Len(s) THEN e + 1 ELSE e]

\* strtok(NULL, "") resumed at position p of s: all that is left
strtok_rest(s, p) == [found |-> p <= Len(s), tok |-> SubSeq(s, p, Len(s))]

\* one turn of load_from_file's loop on a line that is not passed over: the
\* record is put at the end of the list under the id the line gives
load_line(l, line) ==
    LET t1 == strtok_comma(line, 1)
        t2 == strtok_comma(line, t1.next)
        t3 == strtok_comma(line, t2.next)
        t4 == strtok_comma(line, t3.next)
        rest == strtok_rest(line, t4.next)
        n == Len(rest.tok)
        note_rest == IF ~rest.found THEN <<>>
                     ELSE IF n >= 2 /\ rest.tok[1] = QUOTE /\ rest.tok[n] = QUOTE
                     THEN strncpy_nul(SubSeq(rest.tok, 2, n - 1), NOTE_LEN)
                     ELSE strncpy_nul(rest.tok, NOTE_LEN)
        id == atoi(t1.tok)
        e == list_ensure_capacity(l)
        r == Record(id, strncpy_nul(t2.tok, DATE_LEN),
                    strncpy_nul(t3.tok, CATEGORY_LEN), atof(t4.tok),
                    strncpy_nul(note_rest, NOTE_LEN))
    IN IF ~t1.found \/ ~t2.found \/ ~t3.found \/ ~t4.found THEN l
       ELSE [e EXCEPT !.items = Append(@, r),
                      !.next_id = IF id >= @ THEN id + 1 ELSE @]

\* the loop over the lines fgets reads (LINE_BUF is MAX_LINE); line_no is
\* the number of the first of them
RECURSIVE load_loop(_, _, _)
load_loop(l, lines, line_no) ==
    IF lines = <<>> THEN l
    ELSE LET line == trim_newline(Head(lines))
             header == /\ line_no = 1
                       /\ Contains(line, <<"i", "d">>)
                       /\ Contains(line, <<"d", "a", "t", "e">>)
         IN IF header \/ line = <<>>
            THEN load_loop(l, Tail(lines), line_no + 1)
            ELSE load_loop(load_line(l, line), Tail(lines), line_no + 1)

\* file: what is at filename; open_ok: whether fopen(filename, "r") succeeds
load_from_file(l, file, open_ok) ==
    IF ~file.exists \/ ~open_ok THEN [ret |-> 0, after |-> l]
    ELSE [ret |-> 1, after |-> load_loop(l, fgets_all(file.data), 1)]

FinanceDates == { <<"d", LF>> }
FinanceCategories == { <<"c", LF>> }
FinanceAmounts == { <<"5", LF>> }
FinanceNotes == { <<"n", LF>> }
NewAmounts == { <<"-", "2", ".", "5", LF>> }
NewNotes == { <<LF>> }
RecordIdInputs == { <<"2", LF>>, <<"0", LF>> }

\* main up to its menu: init_list, and load_from_file finds no data file
FinanceInit ==
    /\ disk = [p \in {DATA_FILE} |-> NoFile]
    /\ list = init_list
    /\ pc = "finance_menu"
    /\ NoLibrary
    /\ NoCall
    /\ ops = 0
    /\ faults = 0
    /\ result = NoResult
    /\ doc = NoDoc
    /\ saved = <<>>
    /\ saves = 0
    /\ tb = NoBuffer
    /\ current_path = NoName
    /\ before = <<>>

\* menu 2
AddRecord(date_in, category_in, amount_in, note_in) ==
    /\ pc = "finance_menu"
    /\ list.next_id <= MaxAdds
    /\ list' = add_record(list, trim_newline(date_in),
                          trim_newline(category_in), atof(amount_in),
                          trim_newline(note_in))
    /\ result' = Result("add_record", list'.next_id - 1, 1, "added")
    /\ UNCHANGED <<disk, pc, ops, faults, library, notes, buffer>>

\* menu 3
DeleteRecord(id_in) ==
    LET id == atoi(id_in)
        r == delete_record(list, id)
    IN /\ pc = "finance_menu"
       /\ ops < MaxOps
       /\ list' = r.after
       /\ result' = Result("delete_record", id, r.ret,
                           IF r.ret = 1 THEN "deleted" ELSE "not_found")
       /\ ops' = ops + 1
       /\ UNCHANGED <<disk, pc, faults, library, notes, buffer>>

\* menu 4: main looks the id up itself before it asks for the new values
UpdateRecord(id_in, date_in, category_in, amount_in, note_in) ==
    LET id == atoi(id_in)
        idx == find_index_by_id(list, id)
        r == update_record(list, id, trim_newline(date_in),
                           trim_newline(category_in), atof(amount_in),
                           trim_newline(note_in))
    IN /\ pc = "finance_menu"
       /\ ops < MaxOps
       /\ IF idx = 0
          THEN /\ result' = Result("update_record", id, 0, "not_found")
               /\ UNCHANGED list
          ELSE /\ list' = r.after
               /\ result' = Result("update_record", id, r.ret,
                                   IF r.ret = 1 THEN "updated" ELSE "failed")
       /\ ops' = ops + 1
       /\ UNCHANGED <<disk, pc, faults, library, notes, buffer>>

\* menu 7
SaveToFile(open_ok) ==
    LET r == save_to_file(list, disk[DATA_FILE], open_ok)
    IN /\ pc = "finance_menu"
       /\ ops < MaxOps
       /\ Len(list.items) <= MaxFileRecords
       /\ ~open_ok => faults < MaxFaults
       /\ faults' = IF open_ok THEN faults ELSE faults + 1
       /\ disk' = [disk EXCEPT ![DATA_FILE] = r.file]
       /\ result' = Result("save_to_file", 0, r.ret,
                           IF r.ret = 1 THEN "saved" ELSE "failed")
       /\ ops' = ops + 1
       /\ UNCHANGED <<list, pc, library, notes, buffer>>

\* menu 8: the records of the data file are put behind those of the list
LoadFromFile(confirm, open_ok) ==
    LET r == load_from_file(list, disk[DATA_FILE], open_ok)
    IN /\ pc = "finance_menu"
       /\ ops < MaxOps
       /\ Len(list.items) <= MaxFileRecords
       /\ IF ~confirm
          THEN /\ open_ok
               /\ result' = Result("load_from_file", 0, 0, "cancelled")
               /\ UNCHANGED <<list, faults>>
          ELSE /\ ~open_ok => disk[DATA_FILE].exists /\ faults < MaxFaults
               /\ faults' = IF open_ok THEN faults ELSE faults + 1
               /\ list' = r.after
               /\ result' = Result("load_from_file", 0, r.ret,
                                   IF r.ret = 1 THEN "loaded" ELSE "failed")
       /\ ops' = ops + 1
       /\ UNCHANGED <<disk, pc, library, notes, buffer>>

(* ============================= notebook.c ============================== *)

NOTEBOOK_INITIAL_CAPACITY == 128

doc_new ==
    [lines |-> <<>>, capacity |-> NOTEBOOK_INITIAL_CAPACITY,
     filename |-> NoName, modified |-> 0]

\* while (newcap < need) newcap *= 2
RECURSIVE grow_to(_, _)
grow_to(newcap, need) ==
    IF newcap < need THEN grow_to(newcap * 2, need) ELSE newcap

doc_ensure_capacity_NoGrowth(d, need, alloc) ==
    IF ~alloc /\ need > d.capacity THEN [ret |-> 0, after |-> d]
    ELSE [ret |-> 1, after |-> d]

\* alloc: whether realloc, if it is called, succeeds
doc_ensure_capacity(d, need, alloc) ==
    IF need <= d.capacity THEN [ret |-> 1, after |-> d]
    ELSE IF ~alloc THEN [ret |-> 0, after |-> d]
    ELSE [ret |-> 1, after |-> [d EXCEPT !.capacity = grow_to(@, need)]]

doc_append(d, line, alloc) ==
    LET e == doc_ensure_capacity(d, Len(d.lines) + 1, alloc)
    IN IF e.ret = 0 THEN [ret |-> 0, after |-> d]
       ELSE [ret |-> 1,
             after |-> [e.after EXCEPT !.lines = Append(@, line),
                                       !.modified = 1]]

\* seq with x put in as its element i
InsertAt(seq, i, x) == SubSeq(seq, 1, i - 1) \o <<x>> \o SubSeq(seq, i, Len(seq))

\* pos counts from 0
doc_insert(d, pos, line, alloc) ==
    LET p == IF pos > Len(d.lines) THEN Len(d.lines) ELSE pos
        e == doc_ensure_capacity(d, Len(d.lines) + 1, alloc)
    IN IF e.ret = 0 THEN [ret |-> 0, after |-> d]
       ELSE [ret |-> 1,
             after |-> [e.after EXCEPT !.lines = InsertAt(@, p + 1, line),
                                       !.modified = 1]]

\* pos counts from 0
doc_delete(d, pos) ==
    IF pos >= Len(d.lines) THEN [ret |-> 0, after |-> d]
    ELSE [ret |-> 1,
          after |-> [d EXCEPT !.lines = RemoveAt(@, pos + 1), !.modified = 1]]

doc_clear(d) == [d EXCEPT !.lines = <<>>, !.filename = NoName, !.modified = 0]

\* the calls of readline_alloc worked out in one go
ReadChunk == 16

\* index of the first '\n' or '\r' in s at or after p, Len(s) + 1 when none
RECURSIVE EolFrom(_, _)
EolFrom(s, p) ==
    IF p > Len(s) \/ s[p] \in {LF, CR} THEN p ELSE EolFrom(s, p + 1)

\* the lines the next n calls of readline_alloc return from position p of
\* the file, and the position the file is left at; the calls end early when
\* one of them returns NULL at the end of the file
RECURSIVE readline_some(_, _, _)
readline_some(text, p, n) ==
    IF n = 0 \/ p > Len(text) THEN [lines |-> <<>>, next |-> p]
    ELSE LET e == EolFrom(text, p)
             line == SubSeq(text, p, e - 1)
             q == IF e < Len(text) /\ text[e] = CR /\ text[e + 1] = LF
                  THEN e + 2 ELSE e + 1
             rest == readline_some(text, q, n - 1)
         IN IF e > Len(text) THEN [lines |-> <<line>>, next |-> e]
            ELSE IF e = Len(text) /\ text[e] = CR /\ line = <<>>
            THEN [lines |-> <<>>, next |-> q]
            ELSE [lines |-> <<line>> \o rest.lines, next |-> rest.next]

\* the lines readline_alloc returns, called again and again from position p
\* of the file, until it returns NULL at the end of the file
RECURSIVE readline_all(_, _)
readline_all(text, p) ==
    LET r == readline_some(text, p, ReadChunk)
    IN IF r.next > Len(text) THEN r.lines
       ELSE r.lines \o readline_all(text, r.next)

\* doc_load's loop over the lines it reads: it ends at the first doc_append
\* that fails.  The loop over lines is the loop over its first half and then,
\* if that went through, the loop over its second half.
RECURSIVE doc_append_all(_, _, _)
doc_append_all(d, lines, alloc) ==
    IF lines = <<>> THEN [ret |-> 1, after |-> d]
    ELSE IF Len(lines) = 1 THEN doc_append(d, lines[1], alloc)
    ELSE LET h == Len(lines) \div 2
             r == doc_append_all(d, SubSeq(lines, 1, h), alloc)
         IN IF r.ret = 0 THEN r
            ELSE doc_append_all(r.after, SubSeq(lines, h + 1, Len(lines)),
                                alloc)

\* file: what is at path; nread: the lines readline_alloc hands over before
\* its malloc fails (a NULL that doc_load takes for the end of the file);
\* alloc: whether realloc in doc_append succeeds; dup: whether xstrdup does
doc_load(d, path, file, nread, alloc, dup) ==
    LET d0 == [d EXCEPT !.modified = 0]
        all == readline_all(file.data, 1)
        got == SubSeq(all, 1, Min(nread, Len(all)))
        r == doc_append_all(doc_clear(d0), got, alloc)
    IN IF ~file.exists THEN [ret |-> 0, after |-> d0]
       ELSE IF r.ret = 0 THEN r
       ELSE IF ~dup THEN [ret |-> 0, after |-> r.after]
       ELSE [ret |-> 1,
             after |-> [r.after EXCEPT !.filename = path, !.modified = 0]]

\* doc_save, had it left out the document's empty lines
doc_save_SkipsEmpty(d, path, old, open_ok, nwritten, newname) ==
    IF path = NoName \/ ~open_ok
    THEN [ret |-> 0, after |-> d, file |-> old]
    ELSE IF nwritten < Len(d.lines)
    THEN [ret |-> 0, after |-> d,
          file |-> File(JoinLines(SubSeq(d.lines, 1, nwritten)))]
    ELSE [ret |-> 1,
          after |-> [d EXCEPT !.filename = newname, !.modified = 0],
          file |-> File(JoinLines(SelectSeq(d.lines, LAMBDA l : l # <<>>)))]

\* open_ok: whether fopen(fname, "wb") succeeds; nwritten: the lines written
\* before fputs or fputc fails; newname: what xstrdup(fname) gives
doc_save(d, path, old, open_ok, nwritten, newname) ==
    IF path = NoName \/ ~open_ok
    THEN [ret |-> 0, after |-> d, file |-> old]
    ELSE IF nwritten < Len(d.lines)
    THEN [ret |-> 0, after |-> d,
          file |-> File(JoinLines(SubSeq(d.lines, 1, nwritten)))]
    ELSE [ret |-> 1,
          after |-> [d EXCEPT !.filename = newname, !.modified = 0],
          file |-> File(JoinLines(d.lines))]

\* a file name read out of freed memory
Garbage == <<"?">>

\* the names doc_save may end up with: NULL when xstrdup fails; with no
\* argument main hands over doc->filename itself, which doc_save frees before
\* it copies it, and the copy of freed memory may be any name
SavedNames(arg, path) ==
    IF arg = NoName THEN {path, NoName, Garbage} ELSE {path, NoName}

\* file names the user types
NoteNames == { <<"n.txt">>, <<"m.txt">> }

\* what n.txt may hold when the notebook starts; m.txt does not exist
NoteFiles == { File(<<"x", LF, LF, "y", LF>>), File(<<"x", CR, LF, "y">>) }

\* the arrays read_multiline hands to append and insert
LineArrays == { << <<"a">> >>, << <<"b">>, <<>> >> }

\* one line more than the first allocation holds, typed in one append
LongLines == [i \in 1..(NOTEBOOK_INITIAL_CAPACITY + 1) |-> <<"a">>]

\* the line numbers the user types
LineInputs == { <<"0">>, <<"1">>, <<"2">>, <<"2", "0", "0">> }

\* which call of readline_alloc finds its malloc failing; 0 when none does
ReadFailures == {0, 1, 2}

\* main up to its prompt: doc_new
NotebookInit ==
    /\ \E f \in NoteFiles :
          disk = [p \in NoteNames \cup {Garbage} |->
                     IF p = <<"n.txt">> THEN f ELSE NoFile]
    /\ doc = doc_new
    /\ pc = "notebook_prompt"
    /\ NoLibrary
    /\ NoCall
    /\ ops = 0
    /\ faults = 0
    /\ result = NoResult
    /\ saved = <<>>
    /\ saves = 0
    /\ list = NoList
    /\ tb = NoBuffer
    /\ current_path = NoName
    /\ before = <<>>

\* what a notebook command leaves alone besides doc and disk
notebook_frame == <<pc, library, list, buffer, saves>>

\* new: asks before it drops unsaved changes
NbNew(confirm) ==
    /\ pc = "notebook_prompt"
    /\ ops < MaxOps
    /\ IF doc.modified = 1 /\ ~confirm
       THEN /\ result' = Result("new", 0, 0, "cancelled")
            /\ UNCHANGED notes
       ELSE /\ doc' = doc_clear(doc)
            /\ saved' = <<>>
            /\ result' = Result("new", 0, 1, "new")
    /\ ops' = ops + 1
    /\ UNCHANGED <<disk, faults, notebook_frame>>

\* open [file]: asks before it drops unsaved changes, then doc_load
NbOpen(name, confirm, fail_at, alloc, dup) ==
    LET total == Len(readline_all(disk[name].data, 1))
        nread == IF fail_at = 0 THEN total ELSE Min(fail_at - 1, total)
        failing == nread < total \/ ~alloc \/ ~dup
        r == doc_load(doc, name, disk[name], nread, alloc, dup)
    IN /\ pc = "notebook_prompt"
       /\ ops < MaxOps
       /\ IF doc.modified = 1 /\ ~confirm
          THEN /\ fail_at = 0 /\ alloc /\ dup
               /\ result' = Result("open", 0, 0, "cancelled")
               /\ UNCHANGED <<notes, faults>>
          ELSE /\ fail_at <= total
               /\ failing => faults < MaxFaults
               /\ faults' = IF failing THEN faults + 1 ELSE faults
               /\ doc' = r.after
               /\ saved' = IF r.ret = 1 THEN r.after.lines ELSE saved
               /\ result' = Result("open", 0, r.ret,
                                   IF r.ret = 1 THEN "opened" ELSE "failed")
       /\ ops' = ops + 1
       /\ UNCHANGED <<disk, notebook_frame>>

\* the loop for (j = 0; j < cnt; ++j) doc_append(doc, arr[j]), the results of
\* doc_append ignored; alloc: whether realloc, if the loop calls it, succeeds.
\* The loop over arr is the loop over its first half, whose outcome is worked
\* out in full, and then the loop over its second half.
RECURSIVE append_each(_, _, _)
append_each(d, arr, alloc) ==
    IF arr = <<>> THEN d
    ELSE IF Len(arr) = 1 THEN doc_append(d, arr[1], alloc).after
    ELSE LET h == Len(arr) \div 2
             first == append_each(d, SubSeq(arr, 1, h), alloc)
         IN IF Len(first.lines) = Len(d.lines)
            THEN append_each(d, SubSeq(arr, h + 1, Len(arr)), alloc)
            ELSE append_each(first, SubSeq(arr, h + 1, Len(arr)), alloc)

\* the loop for (j = 0; j < cnt; ++j) doc_insert(doc, start - 1 + j, arr[j])
RECURSIVE insert_each(_, _, _, _)
insert_each(d, pos, arr, alloc) ==
    IF arr = <<>> THEN d
    ELSE insert_each(doc_insert(d, pos, Head(arr), alloc).after,
                     pos + 1, Tail(arr), alloc)

\* append: the lines typed go to the end
NbAppend(arr, alloc) ==
    /\ pc = "notebook_prompt"
    /\ ops < MaxOps
    /\ ~alloc => faults < MaxFaults
    /\ faults' = IF alloc THEN faults ELSE faults + 1
    /\ doc' = append_each(doc, arr, alloc)
    /\ result' = Result("append", Len(arr), 1, "appended")
    /\ ops' = ops + 1
    /\ UNCHANGED <<disk, saved, notebook_frame>>

\* insert [n]: the lines typed go in before line n
NbInsert(n_in, arr, alloc) ==
    LET n == atoi(n_in)
        start == IF n < 1 THEN 1
                 ELSE IF n > Len(doc.lines) + 1 THEN Len(doc.lines) + 1
                 ELSE n
    IN /\ pc = "notebook_prompt"
       /\ ops < MaxOps
       /\ ~alloc => faults < MaxFaults
       /\ faults' = IF alloc THEN faults ELSE faults + 1
       /\ doc' = insert_each(doc, start - 1, arr, alloc)
       /\ result' = Result("insert", start, 1, "inserted")
       /\ ops' = ops + 1
       /\ UNCHANGED <<disk, saved, notebook_frame>>

\* delete [n]: main checks the line number before it calls doc_delete
NbDelete(n_in) ==
    LET n == atoi(n_in)
        r == doc_delete(doc, n - 1)
    IN /\ pc = "notebook_prompt"
       /\ ops < MaxOps
       /\ IF n < 1 \/ n > Len(doc.lines)
          THEN /\ result' = Result("delete", n, 0, "out_of_range")
               /\ UNCHANGED doc
          ELSE /\ doc' = r.after
               /\ result' = Result("delete", n, r.ret, "deleted")
       /\ ops' = ops + 1
       /\ UNCHANGED <<disk, faults, saved, notebook_frame>>

\* save [file]: with no argument the document's own file name is used;
\* short: whether a write fails half way.  It reads no text, and is not
\* counted as a command
NbSave(arg, open_ok, short, newname) ==
    LET path == IF arg = NoName THEN doc.filename ELSE arg
        nwritten == IF short THEN Len(doc.lines) \div 2 ELSE Len(doc.lines)
        failing == ~open_ok \/ short \/ newname # path
        r == doc_save(doc, path, disk[path], open_ok, nwritten, newname)
    IN /\ pc = "notebook_prompt"
       /\ saves < MaxSaves
       /\ IF path = NoName
          THEN /\ open_ok /\ ~short /\ newname = NoName
               /\ result' = Result("save", 0, 0, "no file name")
               /\ UNCHANGED <<doc, saved, disk, faults>>
          ELSE /\ newname \in SavedNames(arg, path)
               /\ short => open_ok /\ Len(doc.lines) > 0
               /\ r.ret = 0 => newname = path
               /\ failing => faults < MaxFaults
               /\ faults' = IF failing THEN faults + 1 ELSE faults
               /\ doc' = r.after
               /\ saved' = IF r.ret = 1 THEN doc.lines ELSE saved
               /\ disk' = [disk EXCEPT ![path] = r.file]
               /\ result' = Result("save", 0, r.ret,
                                   IF r.ret = 1 THEN "saved" ELSE "failed")
       /\ saves' = saves + 1
       /\ UNCHANGED <<ops, pc, library, list, buffer>>

\* exit: asks before it drops unsaved changes, then doc_free
NbExit(confirm) ==
    /\ pc = "notebook_prompt"
    /\ IF doc.modified = 1 /\ ~confirm
       THEN /\ result' = Result("exit", 0, 0, "cancelled")
            /\ UNCHANGED <<doc, pc>>
       ELSE /\ doc' = NoDoc
            /\ pc' = "exit"
            /\ result' = Result("exit", 0, 1, "exit")
    /\ UNCHANGED <<disk, ops, faults, saved, saves, library, list, buffer>>

(* ========================= portable_notebook.c ========================= *)

INITIAL_CAP == 1024

tb_create == [lines |-> <<>>, capacity |-> INITIAL_CAP, last_snapshot |-> NoSnapshot]

\* allocation failure ends the process in fatal and is the step TbFatal
tb_ensure(t, mincap) ==
    IF t.capacity >= mincap THEN t
    ELSE [t EXCEPT !.capacity = grow_to(@, mincap)]

tb_snapshot(t) ==
    [t EXCEPT !.last_snapshot = [taken |-> TRUE, text |-> JoinLines(t.lines)]]

\* the pieces getline hands over: each runs through the next '\n'
RECURSIVE getline_all(_)
getline_all(text) ==
    IF text = <<>> THEN <<>>
    ELSE LET n == Min(IndexFrom(text, 1, LF), Len(text))
         IN <<SubSeq(text, 1, n)>> \o getline_all(SubSeq(text, n + 1, Len(text)))

\* while (r > 0 && (line[r-1] == '\n' || line[r-1] == '\r')) line[--r] = '\0'
RECURSIVE strip_eol(_)
strip_eol(s) ==
    IF s # <<>> /\ s[Len(s)] \in {LF, CR} THEN strip_eol(SubSeq(s, 1, Len(s) - 1))
    ELSE s

RECURSIVE tb_load_loop(_, _)
tb_load_loop(t, raws) ==
    IF raws = <<>> THEN t
    ELSE tb_load_loop([tb_ensure(t, Len(t.lines) + 1) EXCEPT
                          !.lines = Append(@, strip_eol(Head(raws)))],
                      Tail(raws))

tb_load(t, path, file) ==
    IF path = NoName \/ ~file.exists THEN [ret |-> 0, after |-> t]
    ELSE [ret |-> 1,
          after |-> tb_load_loop([t EXCEPT !.lines = <<>>], getline_all(file.data))]

tb_replace_line(t, lineno, text) ==
    IF lineno < 1 \/ lineno > Len(t.lines) THEN [ret |-> 0, after |-> t]
    ELSE [ret |-> 1, after |-> [t EXCEPT !.lines[lineno] = text]]

tb_insert_line(t, lineno, text) ==
    LET l == IF lineno < 1 THEN 1 ELSE lineno
        idx == IF l - 1 > Len(t.lines) THEN Len(t.lines) ELSE l - 1
    IN [tb_ensure(t, Len(t.lines) + 1) EXCEPT !.lines = InsertAt(@, idx + 1, text)]

tb_delete_line(t, lineno) ==
    IF lineno < 1 \/ lineno > Len(t.lines) THEN [ret |-> 0, after |-> t]
    ELSE [ret |-> 1, after |-> [t EXCEPT !.lines = RemoveAt(@, lineno)]]

\* snprintf(bak, sizeof(bak), "%s.bak", path)
bak(path) == path \o <<".bak">>

\* what goes wrong in one call of tb_save: nothing, fopen of the backup, a
\* short write to the backup, fopen of the target, an fprintf to the target
SaveFailures == {"none", "bak_open", "bak_write", "open", "write"}

\* the disk after tb_save and the value it returns; each line is written as
\* "%s\n" (the build that is not for Windows)
tb_save(t, path, d, fail) ==
    LET old == d[path].data
        copy == IF fail = "bak_write" THEN SubSeq(old, 1, Len(old) \div 2)
                ELSE old
        backed == IF d[path].exists /\ fail # "bak_open"
                  THEN [d EXCEPT ![bak(path)] = File(copy)]
                  ELSE d
        n == IF fail = "write" THEN Len(t.lines) \div 2 ELSE Len(t.lines)
        written == [backed EXCEPT
                       ![path] = File(JoinLines(SubSeq(t.lines, 1, n)))]
    IN IF path = NoName THEN [ret |-> 0, disk |-> d]
       ELSE IF fail = "open" THEN [ret |-> 0, disk |-> backed]
       ELSE [ret |-> IF fail = "write" THEN 0 ELSE 1, disk |-> written]

\* sscanf(ln, "%zu", &lineno) on an unsigned number or on no number at all
sscanf_zu(s) ==
    LET i == SkipSpace(s, 1)
    IN IF i <= Len(s) /\ s[i] \in DigitSet
       THEN [n |-> 1, val |-> AtoiDigits(s, i, 0)]
       ELSE [n |-> 0, val |-> 0]

\* the line numbers the user types
TbLineInputs == { <<"0">>, <<"1">>, <<"2">>, <<"9">>, <<"x">> }

\* the texts the user types as a line
TbTexts == { <<"t">>, <<>> }

\* what n.txt holds when the portable notebook starts; m.txt does not exist
TbFiles == { File(<<"x", CR, LF, "y">>), File(<<"x", LF, LF, "y", LF>>) }

\* main up to its prompt: tb_create, current_path = ""
PortableInit ==
    /\ \E f \in TbFiles :
          disk = [p \in NoteNames \cup {bak(n) : n \in NoteNames} |->
                     IF p = <<"n.txt">> THEN f ELSE NoFile]
    /\ tb = tb_create
    /\ current_path = NoName
    /\ pc = "portable_prompt"
    /\ NoLibrary
    /\ NoCall
    /\ ops = 0
    /\ faults = 0
    /\ result = NoResult
    /\ before = <<>>
    /\ list = NoList
    /\ doc = NoDoc
    /\ saved = <<>>
    /\ saves = 0

\* what a portable notebook command leaves alone besides tb and current_path
portable_frame == <<disk, pc, faults, library, list, notes>>

\* o: path is the trimmed line typed; NoName is an empty line
TbOpen(path) ==
    LET r == tb_load(tb, path, disk[path])
    IN /\ pc = "portable_prompt"
       /\ ops < MaxOps
       /\ IF path = NoName
          THEN /\ result' = Result("o", 0, 0, "no path")
               /\ UNCHANGED <<tb, current_path>>
          ELSE /\ tb' = r.after
               /\ current_path' = IF r.ret = 1 THEN path ELSE current_path
               /\ result' = Result("o", 0, r.ret,
                                   IF r.ret = 1 THEN "opened" ELSE "failed")
       /\ ops' = ops + 1
       /\ UNCHANGED <<before, portable_frame>>

\* the loop of a: tb_ensure(tb, tb->count + 1); tb->lines[tb->count++] = ln
RECURSIVE tb_append_each(_, _)
tb_append_each(t, arr) ==
    IF arr = <<>> THEN t
    ELSE tb_append_each([tb_ensure(t, Len(t.lines) + 1) EXCEPT
                            !.lines = Append(@, Head(arr))],
                        Tail(arr))

\* a: the lines typed go to the end
TbAppend(arr) ==
    /\ pc = "portable_prompt"
    /\ ops < MaxOps
    /\ tb' = tb_append_each(tb, arr)
    /\ result' = Result("a", Len(arr), 1, "appended")
    /\ ops' = ops + 1
    /\ UNCHANGED <<current_path, before, portable_frame>>

\* e: the snapshot is taken before the line number is checked
TbEdit(ln, newtext) ==
    LET sc == sscanf_zu(ln)
        r == tb_replace_line(tb_snapshot(tb), sc.val, newtext)
    IN /\ pc = "portable_prompt"
       /\ ops < MaxOps
       /\ IF sc.n # 1
          THEN /\ newtext = <<>>
               /\ result' = Result("e", 0, 0, "invalid input")
               /\ UNCHANGED <<tb, before>>
          ELSE /\ tb' = r.after
               /\ before' = tb.lines
               /\ result' = Result("e", sc.val, r.ret,
                                   IF r.ret = 1 THEN "replaced"
                                   ELSE "invalid line number")
       /\ ops' = ops + 1
       /\ UNCHANGED <<current_path, portable_frame>>

\* i: the line typed goes in before line ln
TbInsert(ln, text) ==
    LET sc == sscanf_zu(ln)
    IN /\ pc = "portable_prompt"
       /\ ops < MaxOps
       /\ IF sc.n # 1
          THEN /\ text = <<>>
               /\ result' = Result("i", 0, 0, "invalid input")
               /\ UNCHANGED <<tb, before>>
          ELSE /\ tb' = tb_insert_line(tb_snapshot(tb), sc.val, text)
               /\ before' = tb.lines
               /\ result' = Result("i", sc.val, 1, "inserted")
       /\ ops' = ops + 1
       /\ UNCHANGED <<current_path, portable_frame>>

\* d: asks, takes the snapshot, then tb_delete_line
TbDelete(ln, yes) ==
    LET sc == sscanf_zu(ln)
        r == tb_delete_line(tb_snapshot(tb), sc.val)
    IN /\ pc = "portable_prompt"
       /\ ops < MaxOps
       /\ IF sc.n # 1
          THEN /\ yes
               /\ result' = Result("d", 0, 0, "invalid input")
               /\ UNCHANGED <<tb, before>>
          ELSE IF ~yes
          THEN /\ result' = Result("d", sc.val, 0, "cancelled")
               /\ UNCHANGED <<tb, before>>
          ELSE /\ tb' = r.after
               /\ before' = tb.lines
               /\ result' = Result("d", sc.val, r.ret,
                                   IF r.ret = 1 THEN "deleted"
                                   ELSE "invalid line number")
       /\ ops' = ops + 1
       /\ UNCHANGED <<current_path, portable_frame>>

\* s: asks for a path when there is none yet, takes a snapshot, then tb_save
TbSave(p, fail) ==
    LET path == IF current_path = NoName THEN p ELSE current_path
        r == tb_save(tb, path, disk, fail)
    IN /\ pc = "portable_prompt"
       /\ ops < MaxOps
       /\ current_path # NoName => p = NoName
       /\ (path = NoName \/ ~disk[path].exists) =>
              fail \notin {"bak_open", "bak_write"}
       /\ path = NoName => fail = "none"
       /\ fail # "none" => faults < MaxFaults
       /\ faults' = IF fail = "none" THEN faults ELSE faults + 1
       /\ current_path' = path
       /\ tb' = tb_snapshot(tb)
       /\ before' = tb.lines
       /\ disk' = r.disk
       /\ result' = Result("s", 0, r.ret,
                           IF r.ret = 1 THEN "saved" ELSE "save failed")
       /\ ops' = ops + 1
       /\ UNCHANGED <<pc, library, list, notes>>

\* the tokens strtok(copy, "\n") hands over: the non-empty pieces between
\* newlines
RECURSIVE strtok_all(_)
strtok_all(text) ==
    IF text = <<>> THEN <<>>
    ELSE LET e == IndexFrom(text, 1, LF)
         IN IF e = 1 THEN strtok_all(Tail(text))
            ELSE <<SubSeq(text, 1, e - 1)>>
                 \o strtok_all(SubSeq(text, e + 1, Len(text)))

\* the snapshot stays in place after it has been restored
tb_restore(t) ==
    IF ~t.last_snapshot.taken THEN [ret |-> 0, after |-> t]
    ELSE [ret |-> 1,
          after |-> tb_append_each([t EXCEPT !.lines = <<>>],
                                   strtok_all(t.last_snapshot.text))]

\* u: tb_restore; it reads no text, and is not counted as a command
TbUndo ==
    LET r == tb_restore(tb)
    IN /\ pc = "portable_prompt"
       /\ tb' = r.after
       /\ result' = Result("u", 0, r.ret,
                           IF r.ret = 1 THEN "undone" ELSE "no undo")
       /\ UNCHANGED <<ops, current_path, before, portable_frame>>

\* fatal: an allocation fails inside a command and the process exits
TbFatal ==
    /\ pc = "portable_prompt"
    /\ faults < MaxFaults
    /\ faults' = faults + 1
    /\ pc' = "exit"
    /\ tb' = NoBuffer
    /\ current_path' = NoName
    /\ result' = Result("fatal", 0, 1, "out of memory")
    /\ before' = <<>>
    /\ UNCHANGED <<disk, ops, library, list, notes>>

(* ===================== win_threads_full_example.c ====================== *)

\* for (int i = 0; i < 10; ++i)
Rounds == 10

\* what no step of the thread example changes
elsewhere == <<disk, ops, result, list, notes, buffer, mem, caller, call, hist,
               budget>>

\* main of win_threads_full_example.c is entered
ThreadsInit ==
    /\ disk = <<>>
    /\ pc = "win_main"
    /\ NoLibrary
    /\ NoCall
    /\ ops = 0
    /\ faults = 0
    /\ result = NoResult
    /\ list = NoList
    /\ doc = NoDoc
    /\ saved = <<>>
    /\ saves = 0
    /\ tb = NoBuffer
    /\ current_path = NoName
    /\ before = <<>>

EnterCriticalSection_NoWait(t) == cs' = t

\* EnterCriticalSection(&cs) returns once no other thread owns cs
EnterCriticalSection(t) == cs = 0 /\ cs' = t

\* one step of worker thread t; shared_counter += 1 is a read and a write
Worker(t) ==
    /\ UNCHANGED <<pc, faults, elsewhere>>
    /\ \/ /\ worker[t].pc = "loop"
          /\ worker' = [worker EXCEPT ![t].pc = IF worker[t].i < Rounds
                                                THEN "enter" ELSE "returned"]
          /\ UNCHANGED <<shared_counter, cs>>
       \/ /\ worker[t].pc = "enter"
          /\ EnterCriticalSection(t)
          /\ worker' = [worker EXCEPT ![t].pc = "load"]
          /\ UNCHANGED shared_counter
       \/ /\ worker[t].pc = "load"
          /\ worker' = [worker EXCEPT ![t].reg = shared_counter,
                                      ![t].pc = "store"]
          /\ UNCHANGED <<shared_counter, cs>>
       \/ /\ worker[t].pc = "store"
          /\ shared_counter' = worker[t].reg + 1
          /\ worker' = [worker EXCEPT ![t].done = @ + 1, ![t].pc = "leave"]
          /\ UNCHANGED cs
       \/ /\ worker[t].pc = "leave"
          /\ cs' = 0
          /\ worker' = [worker EXCEPT ![t].pc = "sleep"]
          /\ UNCHANGED shared_counter
       \/ /\ worker[t].pc = "sleep"
          /\ worker' = [worker EXCEPT ![t].i = @ + 1, ![t].pc = "loop"]
          /\ UNCHANGED <<shared_counter, cs>>

\* a thread CreateThread has just made
NewThread == [pc |-> "loop", i |-> 0, reg |-> 0, done |-> 0]

\* one step of main: the two CreateThread calls, each of which may fail, the
\* two waits, and the end
WinMain ==
    /\ UNCHANGED <<shared_counter, elsewhere>>
    /\ \/ /\ pc = "win_main"
          /\ worker' = [worker EXCEPT ![1] = NewThread]
          /\ pc' = "win_create2"
          /\ UNCHANGED <<cs, faults>>
       \/ /\ pc = "win_main"
          /\ faults < MaxFaults
          /\ faults' = faults + 1
          /\ pc' = "win_failed"
          /\ UNCHANGED <<cs, worker>>
       \/ /\ pc = "win_create2"
          /\ worker' = [worker EXCEPT ![2] = NewThread]
          /\ pc' = "win_wait1"
          /\ UNCHANGED <<cs, faults>>
       \/ /\ pc = "win_create2"
          /\ faults < MaxFaults
          /\ faults' = faults + 1
          /\ worker' = [worker EXCEPT ![1].pc = "terminated"]
          /\ cs' = 0
          /\ pc' = "win_failed"
       \/ /\ pc = "win_wait1"
          /\ worker[1].pc = "returned"
          /\ pc' = "win_wait2"
          /\ UNCHANGED <<cs, faults, worker>>
       \/ /\ pc = "win_wait2"
          /\ worker[2].pc = "returned"
          /\ pc' = "win_done"
          /\ UNCHANGED <<cs, faults, worker>>

ThreadsNext == WinMain \/ \E t \in {1, 2} : Worker(t)

\* a run of the thread example
Threads == ThreadsInit /\ [][ThreadsNext]_vars

(* ---------------------------- specification ---------------------------- *)

\* the inputs a program can be given at a prompt: none while it is not there
At(prompt, inputs) == IF pc = prompt THEN inputs ELSE {}

\* the commands of finance_manager_stats.c
FinanceNext ==
    \/ \E d \in At("finance_menu", FinanceDates), c \in FinanceCategories,
          a \in FinanceAmounts, n \in FinanceNotes : AddRecord(d, c, a, n)
    \/ \E id \in At("finance_menu", RecordIdInputs) : DeleteRecord(id)
    \/ \E id \in At("finance_menu", RecordIdInputs), d \in FinanceDates,
          c \in FinanceCategories, a \in NewAmounts, n \in NewNotes :
          UpdateRecord(id, d, c, a, n)
    \/ \E open_ok \in At("finance_menu", BOOLEAN) : SaveToFile(open_ok)
    \/ \E c \in At("finance_menu", BOOLEAN), open_ok \in BOOLEAN :
          LoadFromFile(c, open_ok)

\* the commands of notebook.c
NotebookNext ==
    \/ \E c \in At("notebook_prompt", BOOLEAN) : NbNew(c)
    \/ \E name \in At("notebook_prompt", NoteNames), c \in BOOLEAN,
          fail_at \in ReadFailures, alloc \in BOOLEAN, dup \in BOOLEAN :
          NbOpen(name, c, fail_at, alloc, dup)
    \/ \E arr \in At("notebook_prompt", LineArrays \cup {LongLines}),
          alloc \in BOOLEAN : NbAppend(arr, alloc)
    \/ \E n \in At("notebook_prompt", LineInputs), arr \in LineArrays,
          alloc \in BOOLEAN : NbInsert(n, arr, alloc)
    \/ \E n \in At("notebook_prompt", LineInputs) : NbDelete(n)
    \/ \E c \in At("notebook_prompt", BOOLEAN) : NbExit(c)

\* the commands of portable_notebook.c
PortableNext ==
    \/ \E p \in At("portable_prompt", NoteNames \cup {NoName}) : TbOpen(p)
    \/ \E arr \in At("portable_prompt", LineArrays) : TbAppend(arr)
    \/ \E ln \in At("portable_prompt", TbLineInputs), t \in TbTexts :
          TbEdit(ln, t)
    \/ \E ln \in At("portable_prompt", TbLineInputs), t \in TbTexts :
          TbInsert(ln, t)
    \/ \E ln \in At("portable_prompt", TbLineInputs), yes \in BOOLEAN :
          TbDelete(ln, yes)
    \/ TbUndo
    \/ \E p \in At("portable_prompt", NoteNames \cup {NoName}),
          fail \in SaveFailures : TbSave(p, fail)
    \/ TbFatal

\* the steps of library_improved_commented.c
Next ==
    \/ LoadBooks
    \/ LoadRecords
    \/ \E t \in At("menu", TitleInputs), a \in AuthorInputs, n \in TotalInputs :
          AddBook(t, a, n)
    \/ \E id \in At("menu", BookIdInputs) : DeleteBook(id)
    \/ \E b \in At("menu", BorrowerIdInputs), id \in BookIdInputs, d \in Dates :
          BorrowBook(b, id, d)
    \/ \E b \in At("menu", BorrowerIdInputs), id \in BookIdInputs, d \in Dates :
          ReturnBook(b, id, d)
    \/ Exit
    \/ SaveBooks
    \/ SaveRecords
    \/ SaveBooksReturn
    \/ SaveRecordsReturn
    \/ FopenOk
    \/ FopenFail
    \/ FwriteOk
    \/ FwriteFail
    \/ FcloseOk
    \/ FcloseFail
    \/ RemoveTarget
    \/ RenameOk
    \/ RenameFail

\* a run of the library tool
Spec == Init /\ [][Next]_vars

\* the library tool on an input that also has plain titles and refused loans
\* and returns in it
LoansNext ==
    \/ Next
    \/ \E t \in At("menu", PlainTitleInputs), a \in AuthorInputs,
          n \in TotalInputs : AddBook(t, a, n)
    \/ \E op \in At("menu", {"borrow_book", "return_book"}),
          b \in BorrowerIdInputs, id \in BookIdInputs : LoanRefused(op, b, id)

\* a run of the library tool that finds no data file and is given up to
\* MaxLoanOps commands
Loans == LibraryStart({DiskOf(NoFile, NoFile)}, MaxLoanOps) /\ [][LoansNext]_vars

\* notebook.c on an input of short appends that also has save commands in it
NotesNext ==
    \/ \E c \in At("notebook_prompt", BOOLEAN) : NbNew(c)
    \/ \E name \in At("notebook_prompt", NoteNames), c \in BOOLEAN,
          fail_at \in ReadFailures, alloc \in BOOLEAN, dup \in BOOLEAN :
          NbOpen(name, c, fail_at, alloc, dup)
    \/ \E arr \in At("notebook_prompt", LineArrays), alloc \in BOOLEAN :
          NbAppend(arr, alloc)
    \/ \E n \in At("notebook_prompt", LineInputs), arr \in LineArrays,
          alloc \in BOOLEAN : NbInsert(n, arr, alloc)
    \/ \E n \in At("notebook_prompt", LineInputs) : NbDelete(n)
    \/ \E arg \in At("notebook_prompt", NoteNames \cup {NoName}),
          open_ok \in BOOLEAN, short \in BOOLEAN,
          newname \in NoteNames \cup {NoName, Garbage} :
          NbSave(arg, open_ok, short, newname)
    \/ \E c \in At("notebook_prompt", BOOLEAN) : NbExit(c)

\* a run of notebook.c with up to MaxSaves save commands
Notes == NotebookInit /\ [][NotesNext]_vars

StoresInit ==
    LibraryStart(StoreDisks, MaxOps) \/ FinanceInit \/ NotebookInit \/ PortableInit

StoresNext == LoansNext \/ FinanceNext \/ NotebookNext \/ PortableNext

\* a run of any one of the four programs
Stores == StoresInit /\ [][StoresNext]_vars

(* ------------------------------ properties ----------------------------- *)

\* atomic_save_text has been entered and its caller has not yet taken the result
InCall == pc \in {"fopen", "fwrite", "fclose", "remove", "rename", "ret"}

EmptyStore == [items |-> <<>>, cap |-> 0]

\* C1: at every step of an atomic_save_text call on a target that existed
\* before the call, the target holds either the complete content it had before
\* the call or the complete new content.
C1_ReaderSeesOldOrNew ==
    (InCall /\ pre.exists) =>
        (disk[fname] = pre \/ disk[fname] = File(content))

\* C2: whenever atomic_save_text returns 0, at whatever stage it failed, the
\* target that existed before the call still exists with the content it had.
C2_FailedSaveKeepsTarget ==
    (pc = "ret" /\ ret = 0 /\ pre.exists) => disk[fname] = pre

\* C3: when opening, writing or closing the temporary file fails, the call
\* returns 0, no temporary file is left and the target is as before the call.
C3_TempFailureCleansUp ==
    (pc = "ret" /\ stage \in {"open", "write", "close"}) =>
        /\ ret = 0
        /\ ~disk[tmpname(fname)].exists
        /\ disk[fname] = pre

\* a save over an existing target with different content has failed at fclose,
\* after the temporary file was written in full
C3_Witness ==
    /\ pc = "ret"
    /\ stage = "close"
    /\ pre.exists
    /\ pre.data # content
    /\ Len(content) > 0

\* C4: when the rename fails, the call returns 0 and the fully written
\* temporary file is still there with the new content.
C4_RenameFailureKeepsTmp ==
    (pc = "ret" /\ stage = "rename") =>
        /\ ret = 0
        /\ disk[tmpname(fname)] = File(content)

NoneOf(s, chars) == \A i \in 1..Len(s) : s[i] \notin chars

\* titles and authors are non-empty and hold no comma and no newline
CleanBooks(bs) ==
    \A i \in 1..Len(bs) :
        /\ bs[i].title # <<>>
        /\ bs[i].author # <<>>
        /\ NoneOf(bs[i].title, {COMMA, LF})
        /\ NoneOf(bs[i].author, {COMMA, LF})

\* C5: for a store of books with clean titles and authors, the file save_books
\* has written loads, into an empty store, as the same books in the same order.
C5_BooksRoundTrip ==
    (pc = "ret" /\ fname = BOOKS_CSV /\ ret = 1 /\ CleanBooks(books)) =>
        load_books(disk[BOOKS_CSV], EmptyStore).items = books

\* C6: every unreturned record is there again, at its position and with its
\* fields, when the file save_records has written is loaded into an empty store.
C6_OpenRecordsSurvive ==
    (pc = "ret" /\ fname = BORROW_CSV /\ ret = 1) =>
        LET loaded == load_records(disk[BORROW_CSV], EmptyStore).items
        IN \A i \in 1..Len(records) :
              records[i].return_date = <<>> =>
                  /\ i <= Len(loaded)
                  /\ loaded[i] = records[i]

\* the store the running save writes out is empty
SavingEmptyStore ==
    \/ fname = BOOKS_CSV /\ Len(books) = 0
    \/ fname = BORROW_CSV /\ Len(records) = 0

\* C7: saving a store with no element hands atomic_save_text the empty text,
\* so the file it writes has length zero.
C7_EmptyStoreSavesEmptyText ==
    (InCall /\ pc # "ret" /\ SavingEmptyStore) => content = <<>>

\* the fields of a line in the usual sense: the pieces between its commas, one
\* more than it has commas
RECURSIVE CommaFields(_)
CommaFields(line) ==
    LET e == IndexFrom(line, 1, COMMA)
    IN IF e > Len(line) THEN <<line>>
       ELSE <<SubSeq(line, 1, e - 1)>>
            \o CommaFields(SubSeq(line, e + 1, Len(line)))

\* the book a well-formed line stands for, <<>> for a malformed line
BookOfValidLine(line) ==
    LET f == CommaFields(line)
    IN IF Len(f) < 5 THEN <<>>
       ELSE LET id == atoi(f[1])
                total == atoi(f[4])
                available == atoi(f[5])
            IN IF id > 0 /\ total >= 0 /\ 0 <= available /\ available <= total
               THEN <<Book(id, f[2], f[3], total, available)>>
               ELSE <<>>

RECURSIVE ValidBooks(_)
ValidBooks(lines) ==
    IF lines = <<>> THEN <<>>
    ELSE BookOfValidLine(chomp(Head(lines))) \o ValidBooks(Tail(lines))

\* C8: load_books admits exactly the lines that have at least 5 comma-separated
\* fields and pass validation, in file order, whatever malformed lines there are.
C8_LoadAdmitsValidLines ==
    (pc = "load_records" /\ disk[BOOKS_CSV].exists) =>
        books = ValidBooks(fgets_all(disk[BOOKS_CSV].data))

\* C9: in every state, also right after load_books, every book has id > 0 and
\* no two books have the same id.
C9_IdsPositiveUnique ==
    /\ \A i \in 1..Len(books) : books[i].id > 0
    /\ \A i, j \in 1..Len(books) : i # j => books[i].id # books[j].id

\* C10: every book has 0 <= available <= total in every state.
C10_AvailableWithinTotal ==
    \A i \in 1..Len(books) :
        /\ 0 <= books[i].available
        /\ books[i].available <= books[i].total

\* a copy borrowed in this run has been returned, and return_book has put a
\* book back to its full count
C10_Witness ==
    /\ pc = "save_books"
    /\ caller = "return_book"
    /\ \E j \in 1..Len(records) :
          records[j].borrow_date \in Dates /\ records[j].return_date \in Dates
    /\ \E i \in 1..Len(books) :
          books[i].total > 0 /\ books[i].available = books[i].total

(* ------------------------- the growable stores ------------------------- *)

\* no store holds more elements than its capacity
SizeWithinCapacity ==
    /\ Len(books) <= books_capacity
    /\ Len(records) <= records_capacity
    /\ Len(list.items) <= list.capacity
    /\ Len(doc.lines) <= doc.capacity

\* add_book has appended a book, borrow_book a record
BookAppended == pc = "menu" /\ pc' = "save_books" /\ caller' = "add_book"
RecordAppended == pc = "menu" /\ pc' = "save_books" /\ caller' = "borrow_book"

\* the append command of the notebook has run with every allocation granted
LinesAppended ==
    pc = "notebook_prompt" /\ result'.op = "append" /\ faults' = faults

\* every appending step leaves its store longer by what it appended, and no
\* step that leaves a store longer leaves it with less capacity
AppendsGrow ==
    /\ BookAppended => Len(books') = Len(books) + 1
    /\ RecordAppended => Len(records') = Len(records) + 1
    /\ result'.op = "add_record" => Len(list'.items) = Len(list.items) + 1
    /\ LinesAppended => Len(doc'.lines) = Len(doc.lines) + result'.arg
    /\ Len(books') > Len(books) => books_capacity' >= books_capacity
    /\ Len(records') > Len(records) => records_capacity' >= records_capacity
    /\ Len(list'.items) > Len(list.items) => list'.capacity >= list.capacity
    /\ Len(doc'.lines) > Len(doc.lines) => doc'.capacity >= doc.capacity

\* N add_record calls on the empty RecordList and nothing else: N records
OnlyAppends == (pc = "finance_menu" /\ ops = 0) => Len(list.items) = list.next_id - 1

\* C11: in every reachable state each growable store (the books and records
\* arrays of the library, the RecordList of the finance tool, the Document of
\* the notebook) holds no more elements than its capacity; every append leaves
\* the store one element longer, so that N appends to an empty store give
\* size N; and no append lowers the capacity.
C11_SizeWithinCapacity ==
    [](SizeWithinCapacity /\ OnlyAppends) /\ [][AppendsGrow]_vars

\* the RecordList has been filled by appends alone past its first allocation
C11_Witness ==
    /\ pc = "finance_menu"
    /\ ops = 0
    /\ Len(list.items) = FINANCE_INITIAL_CAPACITY + 1
    /\ list.capacity = 2 * FINANCE_INITIAL_CAPACITY

\* the capacity one append gives a library array of count elements
CapacityRule(cap, count) ==
    IF cap = 0 THEN INITIAL_CAPACITY
    ELSE IF count = cap THEN 2 * cap
    ELSE cap

\* the capacity k appends, one after the other, give it
RECURSIVE CapacityAfter(_, _, _)
CapacityAfter(cap, count, k) ==
    IF k <= 0 THEN cap
    ELSE CapacityAfter(CapacityRule(cap, count), count + 1, k - 1)

\* a step changes the capacities as the appends it makes change them, and
\* not at all when it makes none
CapacityFollowsAppends ==
    /\ books_capacity' =
          CapacityAfter(books_capacity, Len(books), Len(books') - Len(books))
    /\ records_capacity' =
          CapacityAfter(records_capacity, Len(records),
                        Len(records') - Len(records))

\* free_all at exit
ArraysFreed == pc = "ret" /\ pc' = "done"

\* C12 as stated: the capacity of a library array changes only as part of an
\* append: the first append makes it 32, a later append doubles it when the
\* count equals the capacity just before and leaves it alone otherwise.
C12_CapacityChangesOnlyOnAppend == [][CapacityFollowsAppends]_vars

\* C12 amended: the capacity of a library array changes only as part of an
\* append (32 on the first, doubled when the count equals the capacity just
\* before, otherwise unchanged), or when free_all releases the arrays at exit
\* and sets both capacities to 0.
C12_CapacityChangesOnAppendOrFree ==
    [][IF ArraysFreed THEN books_capacity' = 0 /\ records_capacity' = 0
       ELSE CapacityFollowsAppends]_vars

\* add_book has appended to a full books array, which doubled
C12_Witness ==
    /\ pc = "save_books"
    /\ caller = "add_book"
    /\ Len(books) = INITIAL_CAPACITY + 1
    /\ books_capacity = 2 * INITIAL_CAPACITY
    /\ Len(assigned) = 2

\* new is old without its element i
RemovedAt(old, new, i) ==
    /\ i \in 1..Len(old)
    /\ Len(new) = Len(old) - 1
    /\ \A j \in 1..(i - 1) : new[j] = old[j]
    /\ \A j \in i..Len(new) : new[j] = old[j + 1]

\* C13: a delete at a valid index (delete_book, delete_record, the notebook's
\* delete, the portable notebook's d) leaves the sequence it had before
\* without that one element: one element fewer, the others with their values
\* and in their order.
C13_DeleteKeepsOrder ==
    [][/\ (pc = "menu" /\ pc' = "save_books" /\ caller' = "delete_book") =>
             RemovedAt(books, books',
                       find_book_index_by_id(books, result'.arg))
       /\ (result'.op = "delete_record" /\ result'.ret = 1) =>
             \E i \in 1..Len(list.items) :
                /\ list.items[i].id = result'.arg
                /\ RemovedAt(list.items, list'.items, i)
       /\ (result'.op = "delete" /\ result'.ret = 1) =>
             RemovedAt(doc.lines, doc'.lines, result'.arg)
       /\ (result'.op = "d" /\ result'.ret = 1) =>
             RemovedAt(tb.lines, tb'.lines, result'.arg)]_vars

\* delete_record has removed record 2 from between records 1 and 3
C13_Witness ==
    /\ result.op = "delete_record"
    /\ result.ret = 1
    /\ Len(list.items) >= 2
    /\ list.items[1].id = 1
    /\ list.items[2].id = 3

(* ------------------------------ book ids ------------------------------- *)

BookIds(bs) == {bs[i].id : i \in 1..Len(bs)}

Greatest(S) == CHOOSE m \in S : \A x \in S : x <= m

C16_FailedLoadKeepsDocument ==
    [][/\ (result'.op = "open" /\ result'.msg = "failed") => doc' = doc
       /\ (result'.op = "o" /\ result'.msg = "failed") =>
             (tb'.lines = tb.lines /\ current_path' = current_path)]_vars

(* ------------------------------ refusals ------------------------------- *)

\* C17: delete_book on an id with a borrowing record that has no return date
\* removes nothing: the books, the records and the files on disk stay as
\* they are.
C17_OpenLoanBlocksDelete ==
    [][(/\ pc = "menu"
        /\ result'.op = "delete_book"
        /\ has_open_record(records, result'.arg)) =>
          /\ result'.ret = 0
          /\ pc' = "menu"
          /\ UNCHANGED <<books, records, disk>>]_vars

\* delete_book has refused to remove a book of the store that is on loan
C17_Witness ==
    /\ pc = "menu"
    /\ result.op = "delete_book"
    /\ result.msg = "open_record"
    /\ find_book_index_by_id(books, result.arg) # 0
    /\ has_open_record(records, result.arg)

\* what the programs report for an id or a line number that is not there
NotFoundOutcomes == {"not_found", "invalid_id", "invalid line number"}

\* C18: a change addressed by an id or a line number that is not there (the
\* finance tool's delete_record and update_record, the notebook's doc_delete,
\* the portable notebook's tb_delete_line and tb_replace_line with line 0 or
\* a line past the last, the library's delete_book) reports not-found and
\* leaves the size and the contents of the store as they are.
C18_UnknownTargetReported ==
    [][/\ (/\ result'.op \in {"delete_record", "update_record"}
           /\ find_index_by_id(list, result'.arg) = 0) =>
             (result'.ret = 0 /\ result'.msg = "not_found" /\ list' = list)
       /\ \A pos \in Len(doc.lines)..(Len(doc.lines) + 1) :
             doc_delete(doc, pos) = [ret |-> 0, after |-> doc]
       /\ (/\ result'.op \in {"e", "d"}
           /\ result'.msg \notin {"invalid input", "cancelled"}
           /\ result'.arg \notin 1..Len(tb.lines)) =>
             (/\ result'.ret = 0
              /\ result'.msg \in NotFoundOutcomes
              /\ tb'.lines = tb.lines)
       /\ (/\ pc = "menu"
           /\ result'.op = "delete_book"
           /\ find_book_index_by_id(books, result'.arg) = 0) =>
             (/\ result'.ret = 0
              /\ result'.msg \in NotFoundOutcomes
              /\ UNCHANGED <<books, records>>)]_vars

(* --------------------------- failure outcomes -------------------------- *)

\* C19: atomic_save_text gives its caller a different outcome for each stage
\* that fails: a failure before anything was written (the temporary file
\* could not be opened or written) gives one value, the failure of the final
\* rename another.
C19_StagesToldApart ==
    /\ (pc = "ret" /\ stage \in {"open", "write"}) => ret = 0
    /\ (pc = "ret" /\ stage = "rename") => ret \notin {0, 1}

(* --------------------------- ids over time ----------------------------- *)

\* C20: each id add_book hands out is greater than every id it handed out
\* before, whatever delete_book calls come in between, and is never the id
\* of a book that was deleted.
C20_IdsNeverReused ==
    [][(pc = "menu" /\ pc' = "save_books" /\ caller' = "add_book") =>
          /\ \A i \in 1..Len(assigned) : assigned[i] < result'.arg
          /\ result'.arg \notin deleted]_vars

(* ------------------------------- loans --------------------------------- *)

\* a step in which menu 5 or menu 6 did its work and went on to save
Handled(op) == pc = "menu" /\ pc' = "save_books" /\ caller' = op
\* a step in which a menu handler returned to the menu with a message only
Refused(op) == pc = "menu" /\ pc' = "menu" /\ result'.op = op

\* C21: borrow_book succeeds only for a book that is in the store with
\* available > 0; it then appends exactly one record, with an empty
\* return_date, at the end of records and lowers that book's available by
\* exactly 1, every other book and record unchanged; when it refuses, books
\* and records are unchanged.
C21_BorrowBook ==
    [][/\ Handled("borrow_book") =>
            /\ \E idx \in 1..Len(books) :
                  /\ books[idx].id = result'.arg
                  /\ books[idx].available > 0
                  /\ books'[idx].available = books[idx].available - 1
                  /\ books' = [books EXCEPT ![idx].available = @ - 1]
            /\ Len(records') = Len(records) + 1
            /\ SubSeq(records', 1, Len(records)) = records
            /\ records'[Len(records')].book_id = result'.arg
            /\ records'[Len(records')].return_date = <<>>
       /\ Refused("borrow_book") =>
            /\ result'.ret = 0
            /\ books' = books
            /\ records' = records]_vars

\* the second copy of a book has been lent: two records, none left
C21_Witness ==
    /\ pc = "save_books"
    /\ caller = "borrow_book"
    /\ Len(records) = 2
    /\ Len(books) = 1
    /\ books[1].total = 2
    /\ books[1].available = 0

\* the record at i is unreturned and of the same borrower and book as r
OpenLike(rs, i, r) ==
    /\ rs[i].borrower_id = r.borrower_id
    /\ rs[i].book_id = r.book_id
    /\ rs[i].return_date = <<>>

OpenLoans(rs, id) ==
    Cardinality({j \in 1..Len(rs) :
                    rs[j].book_id = id /\ rs[j].return_date = <<>>})

\* C27: in a run that starts from empty stores, after any sequence of
\* add_book, delete_book, borrow_book and return_book every book has
\* available + (its unreturned records) = total, and every unreturned record
\* is of a book that is still in the store.
C27_LoansBalance ==
    /\ \A i \in 1..Len(books) :
          books[i].available + OpenLoans(records, books[i].id) = books[i].total
    /\ \A j \in 1..Len(records) :
          records[j].return_date = <<>> =>
              \E i \in 1..Len(books) : books[i].id = records[j].book_id

\* a book was lent, returned and lent again
C27_Witness ==
    /\ pc = "menu"
    /\ Len(records) = 2
    /\ records[1].return_date # <<>>
    /\ records[2].return_date = <<>>
    /\ Len(books) = 1
    /\ books[1].available = 1

(* ------------------------- the two files on disk ----------------------- *)

\* the lines of a file on disk, none when it does not exist
LinesOnDisk(path) ==
    IF disk[path].exists THEN fgets_all(disk[path].data) ELSE <<>>

\* the number of lines of borrowers.csv on disk that are an unreturned loan
\* of this book id
OpenLoansOnDisk(id) ==
    LET ls == LinesOnDisk(BORROW_CSV)
    IN Cardinality({j \in 1..Len(ls) :
            LET f == CommaFields(chomp(ls[j]))
            IN Len(f) >= 4 /\ atoi(f[2]) = id /\ f[4] = <<>>})

\* C29: if the process stops at any point during borrow_book or return_book,
\* the two files on disk agree: every book in books.csv has available + (its
\* unreturned loans in borrowers.csv) = total.  Stated for runs in which no
\* call has failed.
C29_FilesAgreeDuringLoan ==
    (caller \in {"borrow_book", "return_book"} /\ faults = 0) =>
        LET bs == ValidBooks(LinesOnDisk(BOOKS_CSV))
        IN \A i \in 1..Len(bs) :
              bs[i].available + OpenLoansOnDisk(bs[i].id) = bs[i].total

(* ------------------------------ threads -------------------------------- *)

\* thread t is between EnterCriticalSection and LeaveCriticalSection
InCriticalSection(t) == worker[t].pc \in {"load", "store", "leave"}

\* C30: under every interleaving of the two worker threads at most one of
\* them is inside the critical section, a thread that has returned has made
\* exactly 10 increments and none makes more, no increment is lost, and once
\* both threads have returned shared_counter is 20.
C30_NoLostUpdate ==
    /\ ~(InCriticalSection(1) /\ InCriticalSection(2))
    /\ \A t \in {1, 2} :
          /\ worker[t].done <= 10
          /\ worker[t].pc = "returned" => worker[t].done = 10
    /\ (\A t \in {1, 2} : ~InCriticalSection(t)) =>
          shared_counter = worker[1].done + worker[2].done
    /\ (worker[1].pc = "returned" /\ worker[2].pc = "returned") =>
          shared_counter = 20

\* main has waited for both threads and the counter stands at 20
C30_Witness ==
    /\ pc = "win_done"
    /\ worker[1].pc = "returned"
    /\ worker[2].pc = "returned"
    /\ shared_counter = 20

(* -------------------------------- undo --------------------------------- *)

\* the latest command was an edit, insert or delete that took its snapshot
SnapshotTaken ==
    /\ result.op \in {"e", "i", "d"}
    /\ result.msg \notin {"invalid input", "cancelled"}

\* C24: in portable_notebook, a command that takes an undo snapshot before it
\* changes the buffer (edit, insert, delete), followed by undo, leaves the
\* buffer with exactly the lines it had before the command: same count, same
\* content, same order, empty lines included.
C24_UndoRestoresLines ==
    [][(SnapshotTaken /\ result'.op = "u") => tb'.lines = before]_vars

(* ------------------------------- backups ------------------------------- *)

\* C25: in portable_notebook, whenever tb_save is called on a path that
\* already exists, after the call the file path + ".bak" holds the complete
\* content the target had before the call, whether or not writing the new
\* content succeeds.
C25_BackupHoldsOldContent ==
    [][(result'.op = "s" /\ current_path' # NoName /\ disk[current_path'].exists)
          => disk'[bak(current_path')] = disk[current_path']]_vars

(* ------------------------ the notebook's files ------------------------- *)

\* no line holds a carriage return or a newline
PlainLines(ls) == \A i \in 1..Len(ls) : NoneOf(ls[i], {CR, LF})

\* open has loaded, with every allocation granted, the file the command
\* before it has just saved
LoadedWhatWasSaved ==
    /\ result.op = "save"
    /\ result.ret = 1
    /\ result'.op = "open"
    /\ result'.ret = 1
    /\ faults' = faults
    /\ doc'.filename = doc.filename

C28_ChangesAreFlagged ==
    (pc = "notebook_prompt" /\ doc.lines # saved) => doc.modified = 1

(* ---------------------- the ids of finance records --------------------- *)

\* C23: in finance_manager_stats, after any sequence of add_record,
\* delete_record, update_record, save_to_file and load_from_file (of files
\* written by save_to_file), the ids of the records in the list are pairwise
\* distinct and next_id is greater than every id in the list.
C23_IdsDistinct ==
    pc = "finance_menu" =>
        /\ \A i, j \in 1..Len(list.items) :
              i # j => list.items[i].id # list.items[j].id
        /\ \A i \in 1..Len(list.items) : list.items[i].id < list.next_id

====
